---- MODULE Spec2Model ----
(***************************************************************************)
(* Model of the publish pipeline of ptool (cmd/publish/publish.go).        *)
(*                                                                         *)
(* One content folder lives on a small file system; publicTorrent is run   *)
(* on it repeatedly with arbitrary arguments.  Every file-system effect    *)
(* and every call to the site or the client is one step, so the process    *)
(* can be killed between any two of them; the files survive the kill.      *)
(* A site call, a client call and a file write or rename may fail.         *)
(*                                                                         *)
(* The image and cover entries added to the metadata (lines 313-337,       *)
(* 426-428) and the reserved keys of lines 304 and 339 change nothing the  *)
(* pipeline decides on and are left out of the metadata.                   *)
(***************************************************************************)
EXTENDS Integers, Sequences, FiniteSets, TLC

\* ------------------------------------------------------------------ bounds
\* Number of times publicTorrent is started on the folder.
MaxRuns == 3
\* Number of content folders of a batch.
MaxFolders == 3
\* Largest --max-torrents value of a batch.
MaxCap == 2
\* Largest number of pieces a metadata file is built from.
MaxPieces == 5
\* Number of processes working on the config directory at once.
MaxProcs == 2
\* Number of goroutines of one process that call Get.
MaxThreads == 3

\* ------------------------------------------------------ values and paths
\* A file: whether it exists and what it holds.
File(content) == [exists |-> TRUE, data |-> content]
Absent == [exists |-> FALSE, data |-> ""]
\* Ids the site may hand out; "" is the empty id its contract allows.
Ids == {"", "101"}
\* Parent directories a content folder can live in, as path components.
SaveDir == <<"save">>
OkDir == <<"done">>
FolderName == "a"

\* filepath.Join(dir, name), filepath.Dir(path), filepath.Base(path)
Join(dir, name) == Append(dir, name)
Dir(path) == SubSeq(path, 1, Len(path) - 1)
Base(path) == path[Len(path)]

\* A call that does not require the metadata file.
MetadataFileOptional == FALSE

\* mustMetadataFile: publish() always passes true.
MustMetadataFile == TRUE

VARIABLES
    fs,         \* the content folder on disk: where it is and the files in it
    args,       \* arguments of the current (or last) publicTorrent call
    pc,         \* position inside publicTorrent; "done" = the call ended, "idle" = between calls
    lv,         \* locals of publicTorrent: id, targetContentPath, torrentContents
    result,     \* how the last call ended: the returned err, "panic", "killed"
    trace,      \* effects of the current call, in order
    startFs,    \* fs when the current call started
    fault,      \* an external call or file operation of the current call failed
    runs,       \* calls started so far
    nPublishOk, \* successful PublishTorrent calls so far (all runs)
    killedInWindow, \* a kill fell between a successful PublishTorrent and the marker write
    prevResult, \* result of the call before the current one
    sameArgs,   \* the current call has the arguments of the one before it
    batch,      \* the loop of publish() over the content folders: its counters and position
    parse,      \* one metadata file read and merged: the inputs, the position, the result
    conf        \* the config file, its lock and the processes working on it

\* The variables of one publicTorrent call and of the folder it works on.
callVars == <<fs, args, pc, lv, result, trace, startFs, fault, runs, nPublishOk,
              killedInWindow, prevResult, sameArgs>>
vars == <<callVars, batch, parse, conf>>

\* ------------------------------------------------------------- metadata
\* A metadata string is the sequence of its characters; <<>> is "".
TitleFoo == <<"F", "o", "o">>
TitleBar == <<"B", "a", "r">>
NumberN1 == <<"N", "1">>
TagHd == <<"h", "d">>
\* url.Values over the field names the pipeline reads: name -> value list.
FieldNames == {"title", "number", "tags"}
NoFields == [n \in FieldNames |-> <<>>]
\* url.Values.Get: the first value of the field, "" when it has none.
Get(values, name) == IF Len(values[name]) = 0 THEN <<>> ELSE values[name][1]
\* slices.Contains
Contains(seq, x) == \E i \in 1..Len(seq) : seq[i] = x

\* for name, value := range otherFields { metadata[name] = value }
\* otherFields[n].set tells whether otherFields has the name n.
MergeFields(metadata, otherFields) ==
    [n \in FieldNames |-> IF otherFields[n].set THEN otherFields[n].value ELSE metadata[n]]

\* ------------------------------------------------------- existing check
\* The characters regexp counts as word characters (\w) among those used here.
WordChars == {"N", "1", "x", "z"}
IsWordAt(text, k) == k >= 1 /\ k <= Len(text) /\ text[k] \in WordChars
\* \b before position k of text: exactly one of the characters k-1, k is a word
\* character (the ends of the text count as non-word).
WordBoundary(text, k) == IsWordAt(text, k - 1) # IsWordAt(text, k)
\* regexp.MustCompile(`\b` + regexp.QuoteMeta(number) + `\b`).MatchString(text)
MatchWholeWord(number, text) ==
    \E i \in 1..(Len(text) - Len(number) + 1) :
        /\ SubSeq(text, i, i + Len(number) - 1) = number
        /\ WordBoundary(text, i)
        /\ WordBoundary(text, i + Len(number))
\* Lines 365-370: the id of the first torrent whose name or description matches.
RECURSIVE FirstExisting(_, _)
FirstExisting(number, torrents) ==
    IF torrents = <<>> THEN ""
    ELSE IF MatchWholeWord(number, Head(torrents).name)
            \/ MatchWholeWord(number, Head(torrents).description)
         THEN Head(torrents).id
         ELSE FirstExisting(number, Tail(torrents))
\* Line 366 holds for some torrent of the result.
AnyMatch(number, torrents) ==
    \E i \in 1..Len(torrents) :
        \/ MatchWholeWord(number, torrents[i].name)
        \/ MatchWholeWord(number, torrents[i].description)
\* Torrents the site's search may return.
TorrentExact == [id |-> "55", name |-> <<"N", "1">>, description |-> <<>>]
TorrentNoId == [id |-> "", name |-> <<"z", " ", "N", "1">>, description |-> <<>>]
TorrentSubstring == [id |-> "56", name |-> <<"N", "1", "x">>, description |-> <<>>]
TorrentByDescription == [id |-> "57", name |-> <<"z">>, description |-> <<"N", "1", " ", "z">>]
SearchResults == {<<>>, <<TorrentSubstring>>, <<TorrentNoId, TorrentExact>>,
                  <<TorrentSubstring, TorrentByDescription, TorrentExact>>}

\* ---------------------------------------------------------- path mapper
\* common.PathMapper: an ordered list of (local prefix, client prefix) rules.
IsPrefix(p, path) == Len(p) <= Len(path) /\ SubSeq(path, 1, Len(p)) = p
FirstRule(rules, path) ==
    LET hits == {i \in 1..Len(rules) : IsPrefix(rules[i].local, path)}
    IN IF hits = {} THEN 0 ELSE CHOOSE i \in hits : \A j \in hits : i <= j
\* savePathMapper.Before2After(path): the first matching rule rewrites the prefix.
Before2After(mapper, path) ==
    LET i == FirstRule(mapper.rules, path)
    IN IF i = 0 THEN [path |-> path, match |-> FALSE]
       ELSE [path |-> mapper.rules[i].client
                        \o SubSeq(path, Len(mapper.rules[i].local) + 1, Len(path)),
             match |-> TRUE]

\* ------------------------------------------------------------ file system
\* The path of the content folder on disk.
FolderPath == Join(fs.loc, FolderName)
\* util.FileExists on a folder path.
FolderExists(path) == path = FolderPath
\* A file of the folder, looked up through the folder path the caller uses.
FileIn(path, file) == IF FolderExists(path) THEN file ELSE Absent

\* A rename that leaves the marker files behind.
ReplaceFileWithoutMarkers(f, target) ==
    [f EXCEPT !.loc = Dir(target), !.published = Absent, !.existing = Absent]

\* atomic.ReplaceFile(contentPath, targetContentPath): rename the folder.
ReplaceFile(f, target) == [f EXCEPT !.loc = Dir(target)]

\* The .torrent artifact of the folder: the content hash it describes and its
\* modification time.  The content has hash "c1" and newest file time 1.
NoArtifact == [exists |-> FALSE, data |-> "", mtime |-> 0]
FreshArtifact == [exists |-> TRUE, data |-> "c1", mtime |-> 2]
WrongHashArtifact == [exists |-> TRUE, data |-> "c0", mtime |-> 2]
OldArtifact == [exists |-> TRUE, data |-> "c1", mtime |-> 0]
\* torrentutil.MakeTorrent with Force: the artifact is replaced by one built
\* from the content now.
MakeTorrent(f) == [f EXCEPT !.artifact = [exists |-> TRUE, data |-> f.content.hash, mtime |-> 2]]
\* tinfo.Verify(contentPath): the content's newest time, and an error when the
\* hashes differ.
Verify(f) == [ts |-> f.content.ts, err |-> f.artifact.data # f.content.hash]

\* ----------------------------------------------------------- arguments
ContentPaths == {Join(SaveDir, FolderName), Join(OkDir, FolderName)}
\* moveOk: "" (the empty path) or the move-ok-to directory.
MoveOks == {<<>>, OkDir}
\* clientname: clientInstance is nil exactly when it is "".
ClientNames == {"", "local"}
NilMapper == [nil |-> TRUE, rules |-> <<>>]
Mappers == {NilMapper,
            [nil |-> FALSE, rules |-> <<[local |-> SaveDir, client |-> <<"mnt", "save">>]>>],
            [nil |-> FALSE, rules |-> <<[local |-> SaveDir, client |-> <<"mnt", "save">>],
                                        [local |-> OkDir, client |-> <<"mnt", "done">>]>>]}
\* mustTags: nil (the empty list) or a tag list.
\* otherFields: the fields given with --meta.
NoOtherFields == [n \in FieldNames |-> [set |-> FALSE, value |-> <<>>]]
TitleOverride == [NoOtherFields EXCEPT !["title"] = [set |-> TRUE, value |-> <<TitleBar>>]]
\* The metadata options of a call: no --must-tag and no --meta, or both.
MetaArgs == {[mustTags |-> <<>>, otherFields |-> NoOtherFields],
             [mustTags |-> <<TagHd>>, otherFields |-> TitleOverride]}

Args == {[contentPath |-> cp, moveOk |-> mo, clientname |-> cn, savePathMapper |-> pm,
          checkExisting |-> ce, dryRun |-> dr, mustTags |-> ma.mustTags,
          otherFields |-> ma.otherFields] :
            cp \in ContentPaths, mo \in MoveOks, cn \in ClientNames, pm \in Mappers,
            ce \in BOOLEAN, dr \in BOOLEAN, ma \in MetaArgs}

\* targetContentPath (lines 273-276)
TargetContentPath(a) ==
    IF a.moveOk # <<>> THEN Join(a.moveOk, Base(a.contentPath)) ELSE a.contentPath

\* metadata after lines 289-303: the parsed file (url.Values{} without one) with
\* otherFields on top.
MergedMetadata(a, f) ==
    MergeFields(IF FolderExists(a.contentPath) /\ f.meta.state = "ok"
                THEN f.meta.fields ELSE NoFields,
                a.otherFields)

\* The move-ok-to target never found occupied.
TargetExistsNever(a) == FALSE

\* Lines 274-276: a move-ok-to directory is given and the target path exists.
TargetExists(a) == a.moveOk # <<>> /\ FolderExists(TargetContentPath(a))

\* The early mapper check made on the folder's present parent directory.
PreflightSavePathOfSource(a) == Dir(a.contentPath)

\* Line 282: the directory the early mapper check looks up.
PreflightSavePath(a) == Dir(TargetContentPath(a))

\* The title never found missing.
NoTitleNever(metadata) == FALSE

\* Line 305: the merged metadata has no title.
NoTitle(metadata) == Get(metadata, "title") = <<>>

\* The checks of lines 273-312 in order: the error returned, "" when all pass.
PreflightErr(a, f) ==
    LET target == TargetContentPath(a)
        metaExists == FolderExists(a.contentPath) /\ f.meta.state # "missing"
        metadata == MergedMetadata(a, f)
    IN IF TargetExists(a) THEN "ErrTargetExists"
       ELSE IF ~a.savePathMapper.nil
               /\ ~Before2After(a.savePathMapper, PreflightSavePath(a)).match
            THEN "ErrNoMapping"
       ELSE IF metaExists /\ f.meta.state = "invalid" THEN "ErrInvalidMetadataFile"
       ELSE IF ~metaExists /\ MustMetadataFile THEN "ErrNoMetadataFile"
       ELSE IF NoTitle(metadata) THEN "ErrNoTitle"
       ELSE IF a.mustTags # <<>>
               /\ ~\E i \in 1..Len(a.mustTags) : Contains(metadata["tags"], a.mustTags[i])
            THEN "ErrTagMismatch"
       ELSE ""

\* printResult with the invalid metadata file reported like the missing one.
PrintResultInvalidOk(err) ==
    IF err \in {"nil", "ErrDryRun"} THEN [ok |-> TRUE, published |-> TRUE]
    ELSE IF err \in {"ErrAlreadyPublished", "ErrNoMetadataFile", "ErrInvalidMetadataFile",
                     "ErrExisting", "ErrSmall"}
    THEN [ok |-> TRUE, published |-> FALSE]
    ELSE [ok |-> FALSE, published |-> FALSE]

\* printResult (lines 507-536): [ok, published] of a returned err.
PrintResult(err) ==
    CASE err = "nil" -> [ok |-> TRUE, published |-> TRUE]
      [] err = "ErrDryRun" -> [ok |-> TRUE, published |-> TRUE]
      [] err = "ErrAlreadyPublished" -> [ok |-> TRUE, published |-> FALSE]
      [] err \in {"ErrNoMetadataFile", "ErrExisting"} -> [ok |-> TRUE, published |-> FALSE]
      [] err = "ErrSmall" -> [ok |-> TRUE, published |-> FALSE]
      [] OTHER -> [ok |-> FALSE, published |-> FALSE]

\* Lines 511-516: the line printResult prints for a nil err.
SuccessLine(clientname) ==
    IF clientname # "" THEN "published as id" ELSE "published as id; added to client"

\* ------------------------------------------------------------ batch loop
\* The errs publicTorrent returns, nil included.
Errs == {"nil", "ErrDryRun", "ErrAlreadyPublished", "ErrDownloadPublished", "ErrExisting",
         "ErrNoMetadataFile", "ErrInvalidMetadataFile", "ErrTargetExists", "ErrNoMapping",
         "ErrNoTitle", "ErrTagMismatch", "ErrSearch", "ErrSmall", "ErrMakeTorrent",
         "ErrReadTorrent", "ErrPublish", "ErrMoveFailed", "ErrIdFileNotExists",
         "ErrIdFileEmpty", "ErrReadFile", "ErrDownloadTorrent", "ErrWriteSiteTorrent",
         "ErrAddTorrent"}
\* Line 430 is the one call of PublishTorrent in publicTorrent: the numbers of
\* calls a publicTorrent that returned err may have made.  A dry run ends in
\* PublishTorrent; a failed move comes before it (line 346) or after (line 443).
PublishCalls(err) ==
    CASE err \in {"nil", "ErrDryRun", "ErrPublish", "ErrIdFileNotExists", "ErrIdFileEmpty",
                  "ErrReadFile", "ErrDownloadTorrent", "ErrWriteSiteTorrent",
                  "ErrAddTorrent"} -> {1}
      [] err = "ErrMoveFailed" -> {0, 1}
      [] OTHER -> {0}
\* The loop state of publish(): maxTorrents, the number of content folders, the
\* errs of the folders handled so far in order, the two counters, where the
\* command is, the err it returned and the count that err reports; next is the
\* place in contentPathes the loop is at, calls the places publicTorrent was
\* invoked on, in order, and publishes the PublishTorrent calls each made.
NewBatch(maxTorrents, folders) ==
    [maxTorrents |-> maxTorrents, folders |-> folders, errs |-> <<>>,
     cntHandled |-> 0, errorCnt |-> 0, at |-> "loop", returned |-> "none",
     returnedCnt |-> 0, next |-> 1, calls |-> <<>>, publishes |-> <<>>]
\* No batch is running.
NoBatch == [NewBatch(0, 0) EXCEPT !.at = "none"]

\* No metadata file is being read.
NoParse == [at |-> "none"]
\* No process works on the config file.
NoConf == [at |-> "none"]

\* ----------------------------------------------------------------- Init
\* Metadata files a folder may hold.
MetaMissing == [state |-> "missing", fields |-> NoFields]
MetaInvalid == [state |-> "invalid", fields |-> NoFields]
MetaNoTitle == [state |-> "ok", fields |-> [NoFields EXCEPT !["number"] = <<NumberN1>>]]
MetaTitle == [state |-> "ok", fields |-> [NoFields EXCEPT !["title"] = <<TitleFoo>>]]
MetaFull == [state |-> "ok", fields |-> [title |-> <<TitleFoo>>, number |-> <<NumberN1>>,
                                         tags |-> <<TagHd>>]]

\* The content folders a run may meet: metadata file, artifact, content below
\* the minimum size or not.
Folders ==
    {[meta |-> MetaMissing, artifact |-> NoArtifact, small |-> FALSE],
     [meta |-> MetaInvalid, artifact |-> NoArtifact, small |-> FALSE],
     [meta |-> MetaNoTitle, artifact |-> NoArtifact, small |-> FALSE],
     [meta |-> MetaTitle, artifact |-> NoArtifact, small |-> FALSE],
     [meta |-> MetaTitle, artifact |-> NoArtifact, small |-> TRUE],
     [meta |-> MetaTitle, artifact |-> WrongHashArtifact, small |-> FALSE],
     [meta |-> MetaTitle, artifact |-> OldArtifact, small |-> FALSE],
     [meta |-> MetaTitle, artifact |-> FreshArtifact, small |-> TRUE],
     [meta |-> MetaFull, artifact |-> FreshArtifact, small |-> FALSE]}

InitLv == [id |-> "", target |-> <<>>, dlPath |-> <<>>, from |-> "", bytes |-> "",
           existingId |-> "", matched |-> FALSE, torrentContents |-> "",
           downloadArg |-> "none", addSavePath |-> <<>>]
NoArgs == CHOOSE a \in Args : TRUE

\* A folder in the save directory that no run has touched: no markers, no cached
\* site torrent.
NewFolder(d) ==
    [loc |-> SaveDir, meta |-> d.meta, published |-> Absent, existing |-> Absent,
     siteTorrent |-> Absent, artifact |-> d.artifact,
     content |-> [hash |-> "c1", ts |-> 1, small |-> d.small]]

\* Where a folder no call has touched may lie.  One with usable metadata gets to
\* the move-ok-to directory by the moves of the calls; one without can only
\* have been put there by hand.
InitLocs(d) == IF d.meta.state = "ok" THEN {SaveDir} ELSE {SaveDir, OkDir}

Init ==
    /\ \E d \in Folders : \E loc \in InitLocs(d) : fs = [NewFolder(d) EXCEPT !.loc = loc]
    /\ args = NoArgs
    /\ pc = "idle"
    /\ lv = InitLv
    /\ result = "none"
    /\ trace = <<>>
    /\ startFs = fs
    /\ fault = FALSE
    /\ runs = 0
    /\ nPublishOk = 0
    /\ killedInWindow = FALSE
    /\ prevResult = "none"
    /\ sameArgs = FALSE
    /\ batch = NoBatch
    /\ parse = NoParse
    /\ conf = NoConf

\* No publicTorrent call is running or has run.
NoCall ==
    /\ fs = NewFolder(CHOOSE d \in Folders : d.meta = MetaFull)
    /\ args = NoArgs
    /\ pc = "idle"
    /\ lv = InitLv
    /\ result = "none"
    /\ trace = <<>>
    /\ startFs = fs
    /\ fault = FALSE
    /\ runs = 0
    /\ nPublishOk = 0
    /\ killedInWindow = FALSE
    /\ prevResult = "none"
    /\ sameArgs = FALSE

\* ------------------------------------------------------------- actions
\* return ..., err
Return(err) ==
    /\ pc' = "done"
    /\ result' = err

\* publish() calls publicTorrent (line 188) with the arguments of the command line.
StartRun ==
    /\ pc = "idle"
    /\ runs < MaxRuns
    /\ \E a \in Args : args' = a
    /\ sameArgs' = FALSE
    /\ prevResult' = "none"
    /\ pc' = "preflight"
    /\ lv' = InitLv
    /\ result' = "running"
    /\ trace' = <<>>
    /\ startFs' = fs
    /\ fault' = FALSE
    /\ runs' = runs + 1
    /\ UNCHANGED <<fs, nPublishOk, killedInWindow>>
    /\ UNCHANGED <<batch, parse, conf>>

\* The command is run again with the same command line right after it ended.
Rerun ==
    /\ pc = "done"
    /\ runs < MaxRuns
    /\ sameArgs' = TRUE
    /\ prevResult' = result
    /\ pc' = "preflight"
    /\ lv' = InitLv
    /\ result' = "running"
    /\ trace' = <<>>
    /\ startFs' = fs
    /\ fault' = FALSE
    /\ runs' = runs + 1
    /\ UNCHANGED <<fs, args, nPublishOk, killedInWindow>>
    /\ UNCHANGED <<batch, parse, conf>>

\* The process has ended; only the files are left of it.
Finish ==
    /\ pc = "done"
    /\ pc' = "idle"
    /\ args' = NoArgs
    /\ lv' = InitLv
    /\ result' = "none"
    /\ trace' = <<>>
    /\ startFs' = fs
    /\ fault' = FALSE
    /\ prevResult' = "none"
    /\ sameArgs' = FALSE
    /\ UNCHANGED <<fs, runs, nPublishOk, killedInWindow>>
    /\ UNCHANGED <<batch, parse, conf>>

\* The published marker looked up in the folder's future place instead.
AlreadyPublishedAtTarget(a, f) == FileIn(TargetContentPath(a), f.published).exists

\* Line 343: the folder holds the published marker of the site.
AlreadyPublished(a, f) == FileIn(a.contentPath, f.published).exists

\* The existing marker looked up under the published marker's file name.
KnownExistingWrongFile(a, f) == FileIn(a.contentPath, f.published).exists

\* Line 355: the folder holds the existing marker of the site.
KnownExisting(a, f) == FileIn(a.contentPath, f.existing).exists

\* The existing check run on the number alone, requested or not.
ChecksExistingUnrequested(a, f) == Get(MergedMetadata(a, f), "number") # <<>>

\* Line 358: the existing check runs.
ChecksExisting(a, f) == Get(MergedMetadata(a, f), "number") # <<>> /\ a.checkExisting

\* The marker lookup left out: straight on to the artifact.
AfterPreflightNoLookup == "ensureTorrent"

\* Where publicTorrent goes once the checks of lines 273-340 have passed: to the
\* marker lookup of line 342.
AfterPreflight == "markers"

\* The folder moved before the marker is written.
PublishStepsMoveFirst == <<"publish", "movePublished", "writeMarker", "dlLookup">>

\* The steps from the PublishTorrent call on, in program order (lines 430-447):
\* the marker write, the move of the folder, downloadPublishedTorrent.
PublishSteps == <<"publish", "writeMarker", "movePublished", "dlLookup">>

\* The step after `step`; the move is skipped when targetContentPath ==
\* contentPath (line 442).
NextStep(step, target, contentPath) ==
    LET at == CHOOSE i \in 1..Len(PublishSteps) : PublishSteps[i] = step
        later == {i \in (at + 1)..Len(PublishSteps) :
                    PublishSteps[i] # "movePublished" \/ target # contentPath}
    IN PublishSteps[CHOOSE i \in later : \A j \in later : i <= j]

\* Lines 273-340: the checks before the markers are looked at.
Preflight ==
    /\ pc = "preflight"
    /\ LET e == PreflightErr(args, fs)
       IN IF e # ""
          THEN Return(e) /\ UNCHANGED lv
          ELSE /\ pc' = AfterPreflight
               /\ lv' = [lv EXCEPT !.target = TargetContentPath(args)]
               /\ UNCHANGED result
    /\ UNCHANGED <<fs, args, trace, startFs, fault, runs, nPublishOk, killedInWindow,
                   prevResult, sameArgs>>
    /\ UNCHANGED <<batch, parse, conf>>

\* Lines 342-357: the published marker, then the existing marker, are looked up.
CheckMarkers ==
    /\ pc = "markers"
    /\ trace' = Append(trace, "ReadMarkers")
    /\ IF AlreadyPublished(args, fs)
       THEN /\ pc' = IF lv.target # args.contentPath THEN "moveAlready" ELSE "dlLookup"
            /\ lv' = [lv EXCEPT !.from = "already", !.dlPath = lv.target]
            /\ UNCHANGED result
       ELSE IF KnownExisting(args, fs)
       THEN Return("ErrExisting") /\ UNCHANGED lv
       ELSE /\ pc' = IF ChecksExisting(args, fs) THEN "search" ELSE "ensureTorrent"
            /\ UNCHANGED <<lv, result>>
    /\ UNCHANGED <<fs, args, startFs, fault, runs, nPublishOk, killedInWindow,
                   prevResult, sameArgs>>
    /\ UNCHANGED <<batch, parse, conf>>

\* Lines 344-348: an already published folder is moved to the move-ok-to directory.
MoveAlreadyPublished ==
    /\ pc = "moveAlready"
    /\ \E ok \in BOOLEAN :
         IF ok
         THEN /\ trace' = Append(trace, "Move")
              /\ fs' = ReplaceFile(fs, lv.target)
              /\ pc' = "dlLookup"
              /\ UNCHANGED <<result, fault>>
         ELSE /\ trace' = Append(trace, "MoveFailed")
              /\ Return("ErrMoveFailed")
              /\ fault' = TRUE
              /\ UNCHANGED fs
    /\ UNCHANGED <<args, lv, startFs, runs, nPublishOk, killedInWindow, prevResult,
                   sameArgs>>
    /\ UNCHANGED <<batch, parse, conf>>

\* What publicTorrent returns for the err of downloadPublishedTorrent: lines
\* 349-352 for an already published folder, lines 447-451 after a publish.
AfterDownload(from, err) ==
    IF from = "already"
    THEN (IF err = "nil" THEN "ErrAlreadyPublished" ELSE "ErrDownloadPublished")
    ELSE err

\* Lines 458-472 and 481-484: the cached site torrent, or the id to download.
\* os.ReadFile of a file that exists may still fail.
DownloadLookup ==
    /\ pc = "dlLookup"
    /\ \/ /\ IF ~FileIn(lv.dlPath, fs.siteTorrent).exists
             THEN IF ~FileIn(lv.dlPath, fs.published).exists
                  THEN Return(AfterDownload(lv.from, "ErrIdFileNotExists")) /\ UNCHANGED lv
                  ELSE IF FileIn(lv.dlPath, fs.published).data = ""
                  THEN Return(AfterDownload(lv.from, "ErrIdFileEmpty")) /\ UNCHANGED lv
                  ELSE /\ pc' = "dlFetch"
                       /\ lv' = [lv EXCEPT !.downloadArg =
                                                FileIn(lv.dlPath, fs.published).data]
                       /\ UNCHANGED result
             ELSE /\ pc' = "dlAdd"
                  /\ lv' = [lv EXCEPT !.bytes = FileIn(lv.dlPath, fs.siteTorrent).data]
                  /\ UNCHANGED result
          /\ UNCHANGED fault
       \/ /\ \/ FileIn(lv.dlPath, fs.siteTorrent).exists
             \/ FileIn(lv.dlPath, fs.published).exists
          /\ Return(AfterDownload(lv.from, "ErrReadFile"))
          /\ fault' = TRUE
          /\ UNCHANGED lv
    /\ UNCHANGED <<fs, args, trace, startFs, runs, nPublishOk, killedInWindow,
                   prevResult, sameArgs>>
    /\ UNCHANGED <<batch, parse, conf>>

\* Lines 473-476: siteInstance.DownloadTorrentById(id); the bytes of the site's
\* torrent are identified by the id they were asked with.
DownloadTorrentById ==
    /\ pc = "dlFetch"
    /\ trace' = Append(trace, "Download")
    /\ \E ok \in BOOLEAN :
         IF ok
         THEN /\ lv' = [lv EXCEPT !.bytes = lv.downloadArg]
              /\ pc' = "dlWrite"
              /\ UNCHANGED <<result, fault>>
         ELSE /\ Return(AfterDownload(lv.from, "ErrDownloadTorrent"))
              /\ fault' = TRUE
              /\ UNCHANGED lv
    /\ UNCHANGED <<fs, args, startFs, runs, nPublishOk, killedInWindow, prevResult,
                   sameArgs>>
    /\ UNCHANGED <<batch, parse, conf>>

\* Lines 477-479: the downloaded torrent is cached in the folder.
WriteSiteTorrent ==
    /\ pc = "dlWrite"
    /\ trace' = Append(trace, "WriteCache")
    /\ \E ok \in BOOLEAN :
         IF ok
         THEN /\ fs' = [fs EXCEPT !.siteTorrent = File(lv.bytes)]
              /\ pc' = "dlAdd"
              /\ UNCHANGED <<result, fault>>
         ELSE /\ Return(AfterDownload(lv.from, "ErrWriteSiteTorrent"))
              /\ fault' = TRUE
              /\ UNCHANGED fs
    /\ UNCHANGED <<args, lv, startFs, runs, nPublishOk, killedInWindow, prevResult,
                   sameArgs>>
    /\ UNCHANGED <<batch, parse, conf>>

\* A save path made from the parent directory the call was started on.
ClientSavePathOfSource(mapper, contentPath) ==
    IF mapper.nil THEN [path |-> Dir(args.contentPath), match |-> TRUE]
    ELSE Before2After(mapper, Dir(args.contentPath))

\* Lines 486-493: the save path handed to the client.
ClientSavePath(mapper, contentPath) ==
    IF mapper.nil THEN [path |-> Dir(contentPath), match |-> TRUE]
    ELSE Before2After(mapper, Dir(contentPath))

\* Lines 486-502: clientInstance.AddTorrent.  clientInstance is the nil interface
\* when no client name was given (lines 154-163): the call then panics.
AddTorrent ==
    /\ pc = "dlAdd"
    /\ LET sp == ClientSavePath(args.savePathMapper, lv.dlPath)
       IN IF ~sp.match
          THEN /\ Return(AfterDownload(lv.from, "ErrNoMapping"))
               /\ UNCHANGED <<lv, trace, fault>>
          ELSE IF args.clientname = ""
          THEN /\ Return("panic")
               /\ UNCHANGED <<lv, trace, fault>>
          ELSE /\ trace' = Append(trace, "AddTorrent")
               /\ lv' = [lv EXCEPT !.addSavePath = sp.path]
               /\ \E ok \in BOOLEAN :
                    IF ok
                    THEN Return(AfterDownload(lv.from, "nil")) /\ UNCHANGED fault
                    ELSE Return(AfterDownload(lv.from, "ErrAddTorrent")) /\ fault' = TRUE
    /\ UNCHANGED <<fs, args, startFs, runs, nPublishOk, killedInWindow, prevResult,
                   sameArgs>>
    /\ UNCHANGED <<batch, parse, conf>>

\* Lines 358-370: siteInstance.SearchTorrents(number) and the whole-word filter.
SearchTorrents ==
    /\ pc = "search"
    /\ trace' = Append(trace, "Search")
    /\ \/ /\ Return("ErrSearch")
          /\ fault' = TRUE
          /\ UNCHANGED lv
       \/ \E torrents \in SearchResults :
            LET existingTorrentId ==
                    FirstExisting(Get(MergedMetadata(args, fs), "number"), torrents)
            IN /\ pc' = IF existingTorrentId # "" THEN "writeExisting" ELSE "ensureTorrent"
               /\ lv' = [lv EXCEPT !.existingId = existingTorrentId,
                                   !.matched = AnyMatch(Get(MergedMetadata(args, fs), "number"),
                                                        torrents)]
               /\ UNCHANGED <<result, fault>>
    /\ UNCHANGED <<fs, args, startFs, runs, nPublishOk, killedInWindow, prevResult,
                   sameArgs>>
    /\ UNCHANGED <<batch, parse, conf>>

\* Lines 371-374: the existing marker is written; the error of the write is dropped.
WriteExisting ==
    /\ pc = "writeExisting"
    /\ trace' = Append(trace, "WriteExisting")
    /\ \E ok \in BOOLEAN :
         IF ok
         THEN fs' = [fs EXCEPT !.existing = File(lv.existingId)] /\ UNCHANGED fault
         ELSE fault' = TRUE /\ UNCHANGED fs
    /\ Return("ErrExisting")
    /\ UNCHANGED <<args, lv, startFs, runs, nPublishOk, killedInWindow, prevResult,
                   sameArgs>>
    /\ UNCHANGED <<batch, parse, conf>>

\* Lines 387-397: the artifact is built when the folder has none.
EnsureTorrent ==
    /\ pc = "ensureTorrent"
    /\ IF ~fs.artifact.exists
       THEN IF fs.content.small
            THEN Return("ErrSmall") /\ UNCHANGED <<fs, fault, trace>>
            ELSE /\ trace' = Append(trace, "MakeTorrent")
                 /\ \E ok \in BOOLEAN :
                      IF ok
                      THEN /\ fs' = MakeTorrent(fs)
                           /\ pc' = "verifyTorrent"
                           /\ UNCHANGED <<result, fault>>
                      ELSE /\ Return("ErrMakeTorrent")
                           /\ fault' = TRUE
                           /\ UNCHANGED fs
       ELSE /\ pc' = "verifyTorrent"
            /\ UNCHANGED <<fs, result, fault, trace>>
    /\ UNCHANGED <<args, lv, startFs, runs, nPublishOk, killedInWindow, prevResult,
                   sameArgs>>
    /\ UNCHANGED <<batch, parse, conf>>

\* The artifact counted obsolete on a failed verification only, whatever its age.
ObsoleteByVerifyOnly(f) == Verify(f).err

\* Line 411: the artifact is obsolete.
Obsolete(f) == Verify(f).err \/ Verify(f).ts > f.artifact.mtime

\* Lines 398-425: the artifact is read and verified, and rebuilt when obsolete.
\* os.Stat, os.ReadFile and ParseTorrent of the artifact may fail (lines 398-409).
VerifyTorrent ==
    /\ pc = "verifyTorrent"
    /\ \/ /\ Return("ErrReadTorrent")
          /\ fault' = TRUE
          /\ UNCHANGED <<fs, lv, trace>>
       \/ IF Obsolete(fs)
          THEN IF fs.content.small
               THEN Return("ErrSmall") /\ UNCHANGED <<fs, lv, fault, trace>>
               ELSE /\ trace' = Append(trace, "MakeTorrent")
                    /\ \E ok \in BOOLEAN :
                         IF ok
                         THEN /\ fs' = MakeTorrent(fs)
                              /\ lv' = [lv EXCEPT !.torrentContents = fs'.artifact.data]
                              /\ pc' = "publish"
                              /\ UNCHANGED <<result, fault>>
                         ELSE /\ Return("ErrMakeTorrent")
                              /\ fault' = TRUE
                              /\ UNCHANGED <<fs, lv>>
          ELSE /\ lv' = [lv EXCEPT !.torrentContents = fs.artifact.data]
               /\ pc' = "publish"
               /\ UNCHANGED <<fs, result, fault, trace>>
    /\ UNCHANGED <<args, startFs, runs, nPublishOk, killedInWindow, prevResult, sameArgs>>
    /\ UNCHANGED <<batch, parse, conf>>

\* Line 430: siteInstance.PublishTorrent(torrentContents, metadata).  With the
\* dry-run key in the metadata the site answers ErrDryRun instead of publishing.
PublishTorrent ==
    /\ pc = "publish"
    /\ \/ /\ trace' = Append(trace, "Publish")
          /\ Return("ErrPublish")
          /\ fault' = TRUE
          /\ UNCHANGED <<lv, nPublishOk>>
       \/ /\ args.dryRun
          /\ trace' = Append(trace, "Publish")
          /\ IF lv.target # args.contentPath
             THEN pc' = "dryRunMove" /\ UNCHANGED result
             ELSE Return("ErrDryRun")
          /\ UNCHANGED <<lv, nPublishOk, fault>>
       \/ /\ ~args.dryRun
          /\ trace' = Append(Append(trace, "Publish"), "PublishOk")
          /\ \E id \in Ids :
               lv' = [lv EXCEPT !.id = id, !.from = "published", !.dlPath = lv.target]
          /\ nPublishOk' = nPublishOk + 1
          /\ pc' = NextStep("publish", lv.target, args.contentPath)
          /\ UNCHANGED <<result, fault>>
    /\ UNCHANGED <<fs, args, startFs, runs, killedInWindow, prevResult, sameArgs>>
    /\ UNCHANGED <<batch, parse, conf>>

\* A dry run that leaves the folder where it is.
DryRunNoMove ==
    /\ pc = "dryRunMove"
    /\ Return("ErrDryRun")
    /\ UNCHANGED <<fs, args, lv, trace, startFs, fault, runs, nPublishOk, killedInWindow,
                   prevResult, sameArgs, batch, parse, conf>>

\* Lines 432-435: a dry run still moves the folder; the error of the move is dropped.
DryRunMove ==
    /\ pc = "dryRunMove"
    /\ \E ok \in BOOLEAN :
         IF ok
         THEN /\ trace' = Append(trace, "Move")
              /\ fs' = ReplaceFile(fs, lv.target)
              /\ UNCHANGED fault
         ELSE /\ trace' = Append(trace, "MoveFailed")
              /\ fault' = TRUE
              /\ UNCHANGED fs
    /\ Return("ErrDryRun")
    /\ UNCHANGED <<args, lv, startFs, runs, nPublishOk, killedInWindow, prevResult,
                   sameArgs>>
    /\ UNCHANGED <<batch, parse, conf>>

\* Lines 437-441: the marker written for the id PublishTorrent returned.
MarkPublished(f, id) ==
    IF id # "" THEN [f EXCEPT !.published = File(id)]
    ELSE [f EXCEPT !.existing = IF f.existing.exists THEN f.existing ELSE File("")]

\* Lines 437-441: the marker write; the error of the write is dropped.
WriteMarker ==
    /\ pc = "writeMarker"
    /\ trace' = Append(trace, "WriteMarker")
    /\ \E ok \in BOOLEAN :
         IF ok
         THEN fs' = MarkPublished(fs, lv.id) /\ UNCHANGED fault
         ELSE fault' = TRUE /\ UNCHANGED fs
    /\ pc' = NextStep("writeMarker", lv.target, args.contentPath)
    /\ UNCHANGED <<args, lv, result, startFs, runs, nPublishOk, killedInWindow, prevResult,
                   sameArgs>>
    /\ UNCHANGED <<batch, parse, conf>>

\* Lines 442-446: the published folder is moved to the move-ok-to directory.
MovePublished ==
    /\ pc = "movePublished"
    /\ \E ok \in BOOLEAN :
         IF ok
         THEN /\ trace' = Append(trace, "Move")
              /\ fs' = ReplaceFile(fs, lv.target)
              /\ pc' = NextStep("movePublished", lv.target, args.contentPath)
              /\ UNCHANGED <<result, fault>>
         ELSE /\ trace' = Append(trace, "MoveFailed")
              /\ Return("ErrMoveFailed")
              /\ fault' = TRUE
              /\ UNCHANGED fs
    /\ UNCHANGED <<args, lv, startFs, runs, nPublishOk, killedInWindow, prevResult,
                   sameArgs>>
    /\ UNCHANGED <<batch, parse, conf>>

\* The process is killed; the files stay as they are.
Kill ==
    /\ pc \notin {"idle", "done"}
    /\ pc' = "done"
    /\ result' = "killed"
    /\ killedInWindow' = (killedInWindow \/ pc = "writeMarker")
    /\ UNCHANGED <<fs, args, lv, trace, startFs, fault, runs, nPublishOk, prevResult,
                   sameArgs>>
    /\ UNCHANGED <<batch, parse, conf>>

Next ==
    \/ StartRun
    \/ Rerun
    \/ Finish
    \/ Preflight
    \/ CheckMarkers
    \/ MoveAlreadyPublished
    \/ DownloadLookup
    \/ DownloadTorrentById
    \/ WriteSiteTorrent
    \/ AddTorrent
    \/ SearchTorrents
    \/ WriteExisting
    \/ EnsureTorrent
    \/ VerifyTorrent
    \/ PublishTorrent
    \/ DryRunMove
    \/ WriteMarker
    \/ MovePublished
    \/ Kill

Spec == Init /\ [][Next]_vars

\* ------------------------------------------------------- the batch loop
\* publish() (lines 185-204) over the content folders, each publicTorrent call
\* taken as a whole: it returns one of its errs, or panics.

\* The command starts on a list of content folders with a --max-torrents
\* value; zero and negative values mean no cap (line 197).
BatchInit ==
    /\ \E maxTorrents \in -1..MaxCap, folders \in 0..MaxFolders :
         batch = NewBatch(maxTorrents, folders)
    /\ NoCall
    /\ parse = NoParse
    /\ conf = NoConf

\* A turn of the loop that stays on a folder whose publicTorrent failed.
ProcessFolderRetrying ==
    /\ batch.at = "loop"
    /\ batch.next <= batch.folders
    /\ \E err \in Errs : \E n \in PublishCalls(err) :
         LET r == PrintResult(err)
             errorCnt == batch.errorCnt + (IF ~r.ok THEN 1 ELSE 0)
             cntHandled == batch.cntHandled + (IF ~r.ok \/ r.published THEN 1 ELSE 0)
         IN batch' = [batch EXCEPT
                        !.errs = Append(@, err),
                        !.next = IF r.ok THEN @ + 1 ELSE @,
                        !.calls = Append(@, batch.next),
                        !.publishes = Append(@, n),
                        !.errorCnt = errorCnt,
                        !.cntHandled = cntHandled,
                        !.at = IF Len(batch.errs) + 1 >= MaxFolders
                                  \/ (batch.maxTorrents > 0 /\ cntHandled >= batch.maxTorrents)
                               THEN "break" ELSE "loop"]
    /\ UNCHANGED <<callVars, parse, conf>>

\* Lines 187-200: one turn of the loop.  publicTorrent returns err for the next
\* folder, printResult classifies it, the counters are updated and the loop is
\* left when the cap is reached.
ProcessFolder ==
    /\ batch.at = "loop"
    /\ batch.next <= batch.folders
    /\ \E err \in Errs : \E n \in PublishCalls(err) :
         LET r == PrintResult(err)
             errorCnt == batch.errorCnt + (IF ~r.ok THEN 1 ELSE 0)
             cntHandled == batch.cntHandled + (IF ~r.ok \/ r.published THEN 1 ELSE 0)
         IN batch' = [batch EXCEPT
                        !.errs = Append(@, err),
                        !.next = @ + 1,
                        !.calls = Append(@, batch.next),
                        !.publishes = Append(@, n),
                        !.errorCnt = errorCnt,
                        !.cntHandled = cntHandled,
                        !.at = IF batch.maxTorrents > 0 /\ cntHandled >= batch.maxTorrents
                               THEN "break" ELSE "loop"]
    /\ UNCHANGED <<callVars, parse, conf>>

\* Line 188 with the panic of line 494: the process dies in publicTorrent.
FolderPanics ==
    /\ batch.at = "loop"
    /\ batch.next <= batch.folders
    /\ \E n \in {0, 1} :
         batch' = [batch EXCEPT !.at = "crashed",
                                !.calls = Append(@, batch.next),
                                !.publishes = Append(@, n)]
    /\ UNCHANGED <<callVars, parse, conf>>

\* Lines 201-204: after the loop the command returns an error when errorCnt > 0.
BatchReturn ==
    /\ \/ batch.at = "break"
       \/ batch.at = "loop" /\ batch.next > batch.folders
    /\ batch' = [batch EXCEPT !.at = "returned",
                              !.returned = IF batch.errorCnt > 0 THEN "errors" ELSE "nil",
                              !.returnedCnt = IF batch.errorCnt > 0 THEN batch.errorCnt ELSE 0]
    /\ UNCHANGED <<callVars, parse, conf>>

BatchNext ==
    \/ ProcessFolder
    \/ FolderPanics
    \/ BatchReturn

BatchSpec == BatchInit /\ [][BatchNext]_vars

\* ------------------------------------------------------- the command start
\* publish() from its first line to the loop (lines 108-204): the flag checks,
\* then the comment file, the fields, the path mapper, the site, the client,
\* the folder listing and the move-ok-to directory.  batch.effects lists what
\* the command has touched outside its own memory.

\* util.CountNonZeroVariables: how many of the values are not the zero value.
RECURSIVE CountNonZeroVariables(_)
CountNonZeroVariables(values) ==
    IF values = <<>> THEN 0
    ELSE (IF Head(values) # "" THEN 1 ELSE 0) + CountNonZeroVariables(Tail(values))

\* The flags of a command line: each is "" when it was not given.
Flags == [contentPath : {"", "folder"}, savePath : {"", "save"},
          comment : {"", "text"}, commentFile : {"", "file"},
          clientname : {"", "local"}, moveOkTo : {"", "ok"},
          mapSavePaths : {"", "rules"}]

\* A flag check that knows only the two path flags.
FlagsErrorPathsOnly(flags) ==
    IF CountNonZeroVariables(<<flags.contentPath, flags.savePath>>) # 1
    THEN "ErrPathFlags"
    ELSE ""

\* Lines 109-114: the error of the flag checks, "" when they pass.
FlagsError(flags) ==
    IF CountNonZeroVariables(<<flags.contentPath, flags.savePath>>) # 1
    THEN "ErrPathFlags"
    ELSE IF flags.comment # "" /\ flags.commentFile # ""
    THEN "ErrCommentFlags"
    ELSE ""

CommandInit ==
    /\ \E flags \in Flags :
         batch = [at |-> "flags", flags |-> flags, effects |-> <<>>, returned |-> "none"]
    /\ NoCall
    /\ parse = NoParse
    /\ conf = NoConf

\* The command returns err.
CommandReturns(err) == batch' = [batch EXCEPT !.at = "returned", !.returned = err]
\* The command touches something and either fails there or goes on.
CommandStep(effect, err, to) ==
    \/ batch' = [batch EXCEPT !.effects = Append(@, effect), !.at = to]
    \/ batch' = [batch EXCEPT !.effects = Append(@, effect), !.at = "returned",
                              !.returned = err]

\* Lines 109-114: the two flag checks.
CheckFlags ==
    /\ batch.at = "flags"
    /\ IF FlagsError(batch.flags) # ""
       THEN CommandReturns(FlagsError(batch.flags))
       ELSE batch' = [batch EXCEPT !.at = "commentFile"]
    /\ UNCHANGED <<callVars, parse, conf>>

\* Lines 115-121: the comment file is read when one was given.
ReadCommentFile ==
    /\ batch.at = "commentFile"
    /\ IF batch.flags.commentFile # ""
       THEN CommandStep("ReadCommentFile", "ErrReadCommentFile", "fields")
       ELSE batch' = [batch EXCEPT !.at = "fields"]
    /\ UNCHANGED <<callVars, parse, conf>>

\* Lines 124-146: the --meta fields are parsed and the path mapper is built;
\* both are computed in memory and may fail.
ParseFieldsAndMapper ==
    /\ batch.at = "fields"
    /\ \/ batch' = [batch EXCEPT !.at = "site"]
       \/ CommandReturns("ErrInvalidField")
       \/ batch.flags.mapSavePaths # "" /\ CommandReturns("ErrInvalidMapSavePath")
    /\ UNCHANGED <<callVars, parse, conf>>

\* Lines 147-153: the site is created and asked for its status.
CreateSite ==
    /\ batch.at = "site"
    /\ CommandStep("CreateSite", "ErrSite", "client")
    /\ UNCHANGED <<callVars, parse, conf>>

\* Lines 154-163: with a client name the client is created and asked for its
\* status.
CreateClient ==
    /\ batch.at = "client"
    /\ IF batch.flags.clientname # ""
       THEN CommandStep("CreateClient", "ErrClient", "list")
       ELSE batch' = [batch EXCEPT !.at = "list"]
    /\ UNCHANGED <<callVars, parse, conf>>

\* Lines 164-177: with --save-path its directories are listed.
ListFolders ==
    /\ batch.at = "list"
    /\ IF batch.flags.savePath # ""
       THEN CommandStep("ReadDir", "ErrReadSavePath", "moveOkTo")
       ELSE batch' = [batch EXCEPT !.at = "moveOkTo"]
    /\ UNCHANGED <<callVars, parse, conf>>

\* Lines 178-182: the move-ok-to directory is created.
MkdirMoveOkTo ==
    /\ batch.at = "moveOkTo"
    /\ IF batch.flags.moveOkTo # ""
       THEN CommandStep("MkdirMoveOkTo", "ErrMkdirMoveOkTo", "loop")
       ELSE batch' = [batch EXCEPT !.at = "loop"]
    /\ UNCHANGED <<callVars, parse, conf>>

\* Lines 185-204: the folders are processed and the command returns.
RunLoop ==
    /\ batch.at = "loop"
    /\ \E err \in {"nil", "errors"} :
         batch' = [batch EXCEPT !.effects = Append(@, "ProcessFolders"),
                                !.at = "returned", !.returned = err]
    /\ UNCHANGED <<callVars, parse, conf>>

CommandNext ==
    \/ CheckFlags
    \/ ReadCommentFile
    \/ ParseFieldsAndMapper
    \/ CreateSite
    \/ CreateClient
    \/ ListFolders
    \/ MkdirMoveOkTo
    \/ RunLoop

CommandSpec == CommandInit /\ [][CommandNext]_vars

\* ------------------------------------------------------ the metadata file
\* parseMetadataFile (lines 221-268) and the merge of lines 301-304, on files
\* given as character sequences.  What yaml.Unmarshal makes of the front matter
\* is an input next to the file: a map from keys to values, or an error.

\* Pieces the files are built from: the delimiter line, an empty line, a
\* one-character piece and a three-character piece.
Deli == <<"-", "-", "-", "\n">>
EmptyLine == <<"\n">>
ShortPiece == <<"a">>
LinePiece == <<"k", ":", "v">>
Pieces == {Deli, EmptyLine, ShortPiece, LinePiece}
RECURSIVE Flatten(_)
Flatten(pieces) == IF pieces = <<>> THEN <<>> ELSE Head(pieces) \o Flatten(Tail(pieces))
\* The files: up to MaxPieces pieces one after the other.
Files == {Flatten(ps) : ps \in UNION {[1..n -> Pieces] : n \in 0..MaxPieces}}

\* bytes.Equal(contents[:len(p)], p), for contents at least as long as p
HasPrefix(text, p) == Len(text) >= Len(p) /\ SubSeq(text, 1, Len(p)) = p
\* bytes.Index(text, sub): the offset of the first occurrence, -1 without one.
Index(text, sub) ==
    LET at == {i \in 0..(Len(text) - Len(sub)) : SubSeq(text, i + 1, i + Len(sub)) = sub}
    IN IF at = {} THEN -1 ELSE CHOOSE i \in at : \A j \in at : i <= j
\* strings.TrimSpace
Spaces == {" ", "\t", "\n"}
TrimSpace(text) ==
    LET keep == {i \in 1..Len(text) : text[i] \notin Spaces}
    IN IF keep = {} THEN <<>>
       ELSE SubSeq(text, CHOOSE i \in keep : \A j \in keep : i <= j,
                         CHOOSE i \in keep : \A j \in keep : i >= j)
\* strings.ReplaceAll(text, old, new) for one-character old and new
ReplaceAll(text, old, new) == [i \in 1..Len(text) |-> IF text[i] = old THEN new ELSE text[i]]
\* strings.ContainsAny(text, chars)
ContainsAny(text, chars) == \E i \in 1..Len(text) : text[i] \in chars

\* util.SplitCsv: the comma-separated parts of the text, each trimmed.
RECURSIVE SplitCsv(_)
SplitCsv(text) ==
    LET comma == Index(text, <<",">>)
    IN IF text = <<>> THEN <<>>
       ELSE IF comma < 0 THEN <<TrimSpace(text)>>
       ELSE <<TrimSpace(SubSeq(text, 1, comma))>>
                \o (IF comma + 1 = Len(text) THEN <<<<>>>>
                    ELSE SplitCsv(SubSeq(text, comma + 2, Len(text))))

\* Lines 244-247: a key with a space or a tab has each of them replaced by "_".
NormalizeKey(key) ==
    IF ContainsAny(key, {" ", "\t"})
    THEN ReplaceAll(ReplaceAll(key, " ", "_"), "\t", "_")
    ELSE key

\* Keys and values of the front matter.
KeyTitle == <<"t", "i", "t", "l", "e">>
KeyTags == <<"t", "a", "g", "s">>
KeyOneSpace == <<"a", " ", "b">>
KeyTwoSpaces == <<"a", " ", " ", "b">>
KeyTab == <<"a", "\t", "b">>
KeyText == <<"_", "t", "e", "x", "t">>
KeyMeta == <<"_", "m", "e", "t", "a">>
KeyArrayKeys == <<"_", "a", "r", "r", "a", "y", "_", "k", "e", "y", "s">>
CsvAbc == <<"a", ",", " ", "b", ",", "c">>
\* A decoded value: a string, a list ([]any) of values printed by fmt.Sprint,
\* or another scalar printed by fmt.Sprint.
StringValue(s) == [kind |-> "string", s |-> s, items |-> <<>>]
ListValue(items) == [kind |-> "list", s |-> <<>>, items |-> items]
OtherValue(s) == [kind |-> "other", s |-> s, items |-> <<>>]
NoValues == [k \in {} |-> <<>>]
\* What yaml.Unmarshal may return for a front matter: an error, or a map.
YamlError == [err |-> TRUE, map |-> NoValues]
Decoded(map) == [err |-> FALSE, map |-> map]
RawMetadatas ==
    {YamlError,
     Decoded(NoValues),
     Decoded(KeyTitle :> StringValue(TitleFoo)),
     Decoded((KeyTitle :> StringValue(TitleFoo)) @@ (KeyTags :> StringValue(CsvAbc))),
     Decoded((KeyTitle :> OtherValue(<<"4", "2">>)) @@ (KeyTags :> ListValue(<<TagHd, <<"7">>>>))),
     Decoded(KeyOneSpace :> StringValue(TitleFoo)),
     Decoded(KeyTwoSpaces :> StringValue(TitleFoo)),
     Decoded(KeyTab :> ListValue(<<>>))}
\* metaArrayKeys
ArrayKeyLists == {<<>>, <<KeyTags>>}
\* otherFields as url.ParseQuery returns them (lines 124-133).
OtherFieldMaps ==
    {NoValues,
     KeyTitle :> <<TitleBar>>,
     KeyTags :> <<CsvAbc>>,
     (KeyTags :> <<TagHd, TagHd>>) @@ (KeyOneSpace :> <<>>)}

\* Lines 248-263: the value list a decoded value becomes under its key.
Values(key, value, arrayKeys) ==
    CASE value.kind = "string" ->
            IF Contains(arrayKeys, key) THEN SplitCsv(value.s) ELSE <<value.s>>
      [] value.kind = "list" -> value.items
      [] OTHER -> <<value.s>>

\* Lines 242-266: the url.Values built from the decoded map, then _text and _meta.
\* A list without items adds nothing under its key.
Metadata(map, arrayKeys, text, meta) ==
    LET present == {k \in DOMAIN map : Values(NormalizeKey(k), map[k], arrayKeys) # <<>>}
        keys == {NormalizeKey(k) : k \in present} \cup {KeyText, KeyMeta}
    IN [key \in keys |->
          IF key = KeyMeta THEN <<meta>>
          ELSE IF key = KeyText THEN <<text>>
          ELSE LET k == CHOOSE k \in present : NormalizeKey(k) = key
               IN Values(key, map[k], arrayKeys)]

\* parseMetadataFile (lines 226-267) on the contents read: [err, metadata].
ParseContents(contents, raw, arrayKeys) ==
    IF Len(contents) < 10 \/ ~HasPrefix(contents, Deli)
    THEN [err |-> "ErrInvalidMetadataFile", metadata |-> NoValues]
    ELSE LET rest == SubSeq(contents, Len(Deli) + 1, Len(contents))
             deli == <<"\n">> \o Deli
             index == Index(rest, deli)
         IN IF index < 3
            THEN [err |-> "ErrInvalidMetadataFile", metadata |-> NoValues]
            ELSE IF raw.err
            THEN [err |-> "ErrYaml", metadata |-> NoValues]
            ELSE [err |-> "nil",
                  metadata |-> Metadata(raw.map, arrayKeys,
                                        TrimSpace(SubSeq(rest, index + Len(deli) + 1, Len(rest))),
                                        SubSeq(rest, 1, index))]

\* A merge that appends the values of otherFields to the file's.
MergeValuesByUnion(metadata, otherFields) ==
    [name \in DOMAIN metadata \cup DOMAIN otherFields |->
        (IF name \in DOMAIN metadata THEN metadata[name] ELSE <<>>)
            \o (IF name \in DOMAIN otherFields THEN otherFields[name] ELSE <<>>)]

\* Lines 301-303: every field of otherFields replaces the file's field.
MergeValues(metadata, otherFields) ==
    [name \in DOMAIN metadata \cup DOMAIN otherFields |->
        IF name \in DOMAIN otherFields THEN otherFields[name] ELSE metadata[name]]

\* A metadata file is about to be read by publicTorrent.
ParseInit ==
    /\ \E contents \in Files, raw \in RawMetadatas, arrayKeys \in ArrayKeyLists,
          otherFields \in OtherFieldMaps :
         parse = [at |-> "file", contents |-> contents, raw |-> raw,
                  arrayKeys |-> arrayKeys, otherFields |-> otherFields,
                  err |-> "none", fileMetadata |-> NoValues, metadata |-> NoValues]
    /\ NoCall
    /\ batch = NoBatch
    /\ conf = NoConf

\* Lines 292-295 with lines 221-268: the file is read and parsed; publicTorrent
\* goes on with the metadata or returns ErrInvalidMetadataFile.  os.ReadFile
\* may fail.
ParseMetadataFile ==
    /\ parse.at = "file"
    /\ \/ LET r == ParseContents(parse.contents, parse.raw, parse.arrayKeys)
          IN parse' = [parse EXCEPT !.at = IF r.err = "nil" THEN "parsed" ELSE "failed",
                                    !.err = r.err,
                                    !.fileMetadata = r.metadata]
       \/ parse' = [parse EXCEPT !.at = "failed", !.err = "ErrReadFile"]
    /\ UNCHANGED <<callVars, batch, conf>>

\* Lines 301-304: otherFields are put on top, then the reserved array-keys field.
MergeOtherFields ==
    /\ parse.at = "parsed"
    /\ parse' = [parse EXCEPT
                   !.at = "merged",
                   !.metadata = MergeValues(MergeValues(parse.fileMetadata, parse.otherFields),
                                            KeyArrayKeys :> parse.arrayKeys)]
    /\ UNCHANGED <<callVars, batch, conf>>

ParseNext ==
    \/ ParseMetadataFile
    \/ MergeOtherFields

ParseSpec == ParseInit /\ [][ParseNext]_vars

\* ------------------------------------------------------- the config file
\* Set (lines 309-326) and CreateDefaultConfig (lines 644-677) of the config
\* package, run by several processes on one config directory, next to
\* processes that run publish.  conf.held is the set of processes whose file
\* lock on ptool.lock is in force.

Procs == 1..MaxProcs
\* ConfigType: the two supported types and one that is not.
ConfigTypes == {"toml", "yaml", "json"}
\* What the config file holds: nothing (absent), what the user wrote, the
\* sites Set wrote, the embedded default, or the rest of a failed write.
ConfigFiles == {"absent", "user", "sites", "default", "partial"}
\* The positions of Set and CreateDefaultConfig between TryLock and Unlock.
LockedSteps == {"stat", "open", "get", "write", "unlock"}

ConfInit ==
    /\ \E dir \in BOOLEAN, file \in {"absent", "user"}, configType \in ConfigTypes :
         /\ file # "absent" => dir
         /\ conf = [at |-> "conf", dir |-> dir, file |-> file, configType |-> configType,
                    held |-> {},
                    op |-> [p \in Procs |-> "none"],
                    pc |-> [p \in Procs |-> "idle"],
                    result |-> [p \in Procs |-> "none"]]
    /\ NoCall
    /\ batch = NoBatch
    /\ parse = NoParse

\* The process is at the given position of its operation.
At(p, pos) == conf.pc[p] = pos
\* The process goes to the next position.
Goto(c, p, pos) == [c EXCEPT !.pc[p] = pos]
\* A return statement: the result is fixed, the deferred Unlock runs next when
\* the lock was taken, else the call has returned.
ReturnLocked(c, p, res) == [c EXCEPT !.pc[p] = "unlock", !.result[p] = res]
ReturnUnlocked(c, p, res) == [c EXCEPT !.pc[p] = "returned", !.result[p] = res]

\* A process calls Set, CreateDefaultConfig or publish.
Call(p) ==
    /\ At(p, "idle")
    /\ \E op \in {"Set", "CreateDefaultConfig", "publish"} :
         conf' = [conf EXCEPT !.op[p] = op,
                              !.pc[p] = IF op = "publish" THEN "publish" ELSE "mkdir"]
    /\ UNCHANGED <<callVars, batch, parse>>

\* Lines 310-312 and 645-647: os.MkdirAll(ConfigDir); its error is returned.
MkdirAll(p) ==
    /\ At(p, "mkdir")
    /\ \/ conf' = [Goto(conf, p, "trylock") EXCEPT !.dir = TRUE]
       \/ conf' = ReturnUnlocked(conf, p, "ErrMkdir")
    /\ UNCHANGED <<callVars, batch, parse>>

\* A TryLock whose result is not looked at.
TryLockIgnored(p) ==
    /\ At(p, "trylock")
    /\ conf' = [conf EXCEPT !.pc[p] = IF conf.op[p] = "Set" THEN "get" ELSE "stat",
                            !.held = IF conf.held = {} THEN {p} ELSE @]
    /\ UNCHANGED <<callVars, batch, parse>>

\* Lines 313-316 and 648-651: lock.TryLock() does not wait.  It takes the lock
\* when no process holds it; when one does, or the attempt fails, the call
\* returns "unable to acquire global lock".
TryLock(p) ==
    /\ At(p, "trylock")
    /\ \/ /\ conf.held = {}
          /\ conf' = [conf EXCEPT !.pc[p] = IF conf.op[p] = "Set" THEN "get" ELSE "stat",
                                  !.held = {p}]
       \/ conf' = ReturnUnlocked(conf, p, "ErrLock")
    /\ UNCHANGED <<callVars, batch, parse>>

\* Line 318: Get().Sites.  The first Get of a process reads the config file
\* and ends the process on an invalid one (log.Fatalf, lines 376-428); the
\* lock of a process that ended is gone with it.
GetSites(p) ==
    /\ At(p, "get")
    /\ \/ conf' = Goto(conf, p, "write")
       \/ conf' = [conf EXCEPT !.pc[p] = "exited", !.held = @ \ {p}]
    /\ UNCHANGED <<callVars, batch, parse>>

\* Lines 324-325: viper.WriteConfig() rewrites the config file.
WriteConfig(p) ==
    /\ At(p, "write") /\ conf.op[p] = "Set"
    /\ \/ conf' = [ReturnLocked(conf, p, "nil") EXCEPT !.file = "sites"]
       \/ \E left \in {conf.file, "partial"} :
            conf' = [ReturnLocked(conf, p, "ErrWrite") EXCEPT !.file = left]
    /\ UNCHANGED <<callVars, batch, parse>>

\* An os.Stat whose "exists" answer does not stop the call.
StatConfigFileThenWrite(p) ==
    /\ At(p, "stat")
    /\ \/ conf' = Goto(conf, p, "open")
       \/ conf' = ReturnLocked(conf, p, "ErrAccess")
    /\ UNCHANGED <<callVars, batch, parse>>

\* Lines 653-659: os.Stat(configFile); the call goes on only when the file
\* does not exist.
StatConfigFile(p) ==
    /\ At(p, "stat")
    /\ \/ /\ conf.file = "absent"
          /\ conf' = Goto(conf, p, "open")
       \/ /\ conf.file # "absent"
          /\ conf' = ReturnLocked(conf, p, "ErrExists")
       \/ conf' = ReturnLocked(conf, p, "ErrAccess")
    /\ UNCHANGED <<callVars, batch, parse>>

\* Lines 660-675: the embedded default of the ConfigType is opened and read;
\* a failure there panics, another type is an error.
OpenDefault(p) ==
    /\ At(p, "open")
    /\ IF conf.configType \in {"toml", "yaml"}
       THEN \/ conf' = Goto(conf, p, "write")
            \/ conf' = ReturnLocked(conf, p, "panic")
       ELSE conf' = ReturnLocked(conf, p, "ErrUnsupported")
    /\ UNCHANGED <<callVars, batch, parse>>

\* Line 676: os.WriteFile(configFile, contents, PERM).
WriteFile(p) ==
    /\ At(p, "write") /\ conf.op[p] = "CreateDefaultConfig"
    /\ \/ conf' = [ReturnLocked(conf, p, "nil") EXCEPT !.file = "default"]
       \/ \E left \in {conf.file, "partial"} :
            conf' = [ReturnLocked(conf, p, "ErrWrite") EXCEPT !.file = left]
    /\ UNCHANGED <<callVars, batch, parse>>

\* Lines 317 and 652: the deferred lock.Unlock() runs, on a return and on a
\* panic; then the call is over.
Unlock(p) ==
    /\ At(p, "unlock")
    /\ conf' = [conf EXCEPT !.held = @ \ {p},
                            !.pc[p] = IF conf.result[p] = "panic" THEN "panicked"
                                      ELSE "returned"]
    /\ UNCHANGED <<callVars, batch, parse>>

\* publish (publish.go lines 108-205) runs to its end: it reads the config
\* and works on content folders; it neither looks at the lock nor writes the
\* config file.
Publish(p) ==
    /\ At(p, "publish")
    /\ \E res \in {"nil", "ErrPublish"} : conf' = ReturnUnlocked(conf, p, res)
    /\ UNCHANGED <<callVars, batch, parse>>

ConfNext ==
    \E p \in Procs :
        \/ Call(p)
        \/ MkdirAll(p)
        \/ TryLock(p)
        \/ GetSites(p)
        \/ WriteConfig(p)
        \/ StatConfigFile(p)
        \/ OpenDefault(p)
        \/ WriteFile(p)
        \/ Unlock(p)
        \/ Publish(p)

ConfSpec == ConfInit /\ [][ConfNext]_vars

\* ------------------------------------------------- the config registries
\* Get (lines 328-438) and the lookups that go through it (lines 440-473),
\* called by several goroutines of one process.  once.Do follows sync.Once:
\* a done flag read without the mutex, then the mutex, the flag again, the
\* body, the flag set, the mutex released.  conf.inits counts the runs of the
\* body.

Threads == 1..MaxThreads
\* Get and the lookups that call it first.
Getters == {"Get", "GetClientConfig", "GetSiteConfig", "GetGroupConfig", "GetAliasConfig"}
\* The config file Get reads: one that loads, one that cannot be read or
\* parsed, one with a name the body refuses.
ConfigSources == {"valid", "unreadable", "badname"}
\* configData and the registry maps before the body has run.
NoConfigData == "nil"
EmptyRegistries == "empty"

GetInit ==
    /\ \E source \in ConfigSources :
         conf = [at |-> "get", source |-> source,
                 done |-> FALSE, m |-> 0, inits |-> 0, exited |-> FALSE,
                 configData |-> NoConfigData, registries |-> EmptyRegistries,
                 fn |-> [t \in Threads |-> "none"],
                 pc |-> [t \in Threads |-> "idle"],
                 seen |-> [t \in Threads |-> [configData |-> NoConfigData,
                                              registries |-> EmptyRegistries]]]
    /\ NoCall
    /\ batch = NoBatch
    /\ parse = NoParse

\* The goroutine is at the given position and the process is alive.
Running(t, pos) == ~conf.exited /\ conf.pc[t] = pos

\* A goroutine calls Get or one of the lookups; each begins with Get().
CallGet(t) ==
    /\ Running(t, "idle")    /\ \E fn \in Getters : conf' = [conf EXCEPT !.fn[t] = fn, !.pc[t] = "fast"]
    /\ UNCHANGED <<callVars, batch, parse>>

\* once.Do, fast path: with the flag set the body is skipped.
OnceFast(t) ==
    /\ Running(t, "fast")
    /\ conf' = [conf EXCEPT !.pc[t] = IF conf.done THEN "return" ELSE "lock"]
    /\ UNCHANGED <<callVars, batch, parse>>

\* once.Do, slow path: the mutex is taken when it is free.
OnceLock(t) ==
    /\ Running(t, "lock")
    /\ conf.m = 0
    /\ conf' = [conf EXCEPT !.m = t, !.pc[t] = "slow"]
    /\ UNCHANGED <<callVars, batch, parse>>

\* A slow path that runs the body without reading the flag again.
OnceSlowUnchecked(t) ==
    /\ Running(t, "slow")
    /\ conf' = [conf EXCEPT !.pc[t] = "read", !.inits = @ + 1]
    /\ UNCHANGED <<callVars, batch, parse>>

\* once.Do, slow path: under the mutex the flag is read again; the body runs
\* only when it is still unset.
OnceSlow(t) ==
    /\ Running(t, "slow")
    /\ conf' = IF conf.done
               THEN [conf EXCEPT !.pc[t] = "unlock"]
               ELSE [conf EXCEPT !.pc[t] = "read", !.inits = @ + 1]
    /\ UNCHANGED <<callVars, batch, parse>>

\* Lines 330-345: the config file is read into configData; when it cannot be
\* read or parsed, configData is an empty config.
ReadInConfig(t) ==
    /\ Running(t, "read")
    /\ conf' = [conf EXCEPT !.pc[t] = "register",
                            !.configData = IF conf.source = "unreadable" THEN "default"
                                           ELSE "loaded"]
    /\ UNCHANGED <<callVars, batch, parse>>

\* Lines 346-435: defaults are filled in and the registry maps are built; a
\* name that is empty, invalid or used twice ends the process (log.Fatalf).
Register(t) ==
    /\ Running(t, "register")
    /\ conf' = IF conf.source = "badname"
               THEN [conf EXCEPT !.exited = TRUE]
               ELSE [conf EXCEPT !.pc[t] = "store", !.registries = "built"]
    /\ UNCHANGED <<callVars, batch, parse>>

\* once.Do: after the body the flag is set.
OnceStore(t) ==
    /\ Running(t, "store")
    /\ conf' = [conf EXCEPT !.done = TRUE, !.pc[t] = "unlock"]
    /\ UNCHANGED <<callVars, batch, parse>>

\* once.Do: the mutex is released.
OnceUnlock(t) ==
    /\ Running(t, "unlock")
    /\ conf' = [conf EXCEPT !.m = 0, !.pc[t] = "return"]
    /\ UNCHANGED <<callVars, batch, parse>>

\* Lines 437 and 440-473: the caller gets configData, or an entry of a
\* registry map, as they are now.
ReturnGet(t) ==
    /\ Running(t, "return")
    /\ conf' = [conf EXCEPT !.pc[t] = "returned",
                            !.seen[t] = [configData |-> conf.configData,
                                         registries |-> conf.registries]]
    /\ UNCHANGED <<callVars, batch, parse>>

GetNext ==
    \E t \in Threads :
        \/ CallGet(t)
        \/ OnceFast(t)
        \/ OnceLock(t)
        \/ OnceSlow(t)
        \/ ReadInConfig(t)
        \/ Register(t)
        \/ OnceStore(t)
        \/ OnceUnlock(t)
        \/ ReturnGet(t)

GetSpec == GetInit /\ [][GetNext]_vars

\* ======================================================================
\* Properties
\* ======================================================================
\* A call is in progress or has just ended.
InCall == pc # "idle"
\* The call has ended without being killed and without a failing site, client
\* or file operation.
EndedClean == pc = "done" /\ result # "killed" /\ ~fault
\* The call performed the effect.
Occurs(event) == Contains(trace, event)
\* When the call started, the folder at contentPath held the published marker.
StartedPublished ==
    /\ InCall
    /\ Join(startFs.loc, FolderName) = args.contentPath
    /\ startFs.published.exists

\* C1: a call that starts on a folder holding the published marker never calls
\* PublishTorrent, whatever its other arguments and however many calls came before.
C1_NoPublishWhenMarked == StartedPublished => ~Occurs("Publish")

\* C1 witness: such a call ran with check-existing, a client, a path mapper and
\* a move-ok-to directory, and ended.
C1_Witness ==
    /\ StartedPublished /\ pc = "done" /\ runs >= 2
    /\ args.checkExisting /\ args.clientname # "" /\ ~args.savePathMapper.nil
    /\ args.moveOk # <<>> /\ Occurs("ReadMarkers")

\* C2: run twice in a row with the same arguments on an already published
\* folder, the call is classified AlreadyPublished both times.
C2_SameClassificationTwice ==
    (EndedClean /\ sameArgs /\ prevResult = "ErrAlreadyPublished")
        => result = "ErrAlreadyPublished"

\* C3: PublishTorrent succeeds more than once for the folder only when a kill
\* fell between a successful PublishTorrent and the marker write.
C3_AtMostOncePublished == nPublishOk <= 1 \/ killedInWindow

\* C4: with the published marker present and the cached site torrent missing, a
\* rerun downloads by the marker's id, writes the cache, does not publish and
\* ends AlreadyPublished.
C4_ResumeDownloads ==
    (EndedClean /\ StartedPublished /\ ~startFs.siteTorrent.exists /\ Occurs("ReadMarkers"))
        => /\ Occurs("Download")
           /\ lv.downloadArg = startFs.published.data
           /\ fs.siteTorrent = File(startFs.published.data)
           /\ ~Occurs("Publish")
           /\ result = "ErrAlreadyPublished"

\* C5: the folder never holds both the existing and the published marker.
C5_AtMostOneMarker == ~(fs.published.exists /\ fs.existing.exists)

\* C5 witness: a later call met the existing marker that an earlier one wrote.
C5_Witness ==
    /\ pc = "done" /\ runs >= 2 /\ fs.existing.exists /\ startFs.existing.exists
    /\ result = "ErrExisting"

\* The effects of the call that follow its i-th.
EffectsAfter(i) == SubSeq(trace, i + 1, Len(trace))

\* C6: the markers are read before PublishTorrent is called, and the effect
\* right after a successful PublishTorrent is the marker write.
C6_MarkerAroundPublish ==
    \A i \in 1..Len(trace) :
        /\ trace[i] = "Publish" => \E j \in 1..(i - 1) : trace[j] = "ReadMarkers"
        /\ (trace[i] = "PublishOk" /\ i < Len(trace)) => trace[i + 1] = "WriteMarker"

\* C6 witness: a publish succeeded and the call went on to move the folder and
\* add the torrent to the client.
C6_Witness ==
    /\ pc = "done" /\ Occurs("PublishOk") /\ Occurs("Move") /\ Occurs("AddTorrent")

\* C7: when PublishTorrent succeeds and the download and the client add succeed,
\* the published marker holds the returned id and the call counts as published,
\* for every id, the empty one included.
C7_PublishedRecorded ==
    (EndedClean /\ Occurs("PublishOk") /\ args.clientname # "")
        => /\ fs.published = File(lv.id)
           /\ result = "nil"
           /\ PrintResult(result) = [ok |-> TRUE, published |-> TRUE]

\* The place of an effect in the order the code performs them after a publish.
Rank(event) ==
    CASE event = "WriteMarker" -> 1
      [] event \in {"Move", "MoveFailed"} -> 2
      [] event = "Download" -> 3
      [] event = "WriteCache" -> 4
      [] event = "AddTorrent" -> 5
      [] OTHER -> 0
\* The effects that follow the successful PublishTorrent of the call.
AfterPublishOk ==
    IF Occurs("PublishOk")
    THEN EffectsAfter(CHOOSE i \in 1..Len(trace) : trace[i] = "PublishOk")
    ELSE <<>>

C9_ClientOptional ==
    (EndedClean /\ args.clientname = "")
        => /\ result # "panic"
           /\ ~Occurs("AddTorrent")
           /\ (Occurs("PublishOk") /\ lv.id # "")
                 => (result = "nil" /\ fs.published = File(lv.id) /\ fs.siteTorrent.exists)
           /\ (StartedPublished /\ Occurs("ReadMarkers")) => result = "ErrAlreadyPublished"

\* The checks of lines 273-312 other than the one on the move-ok-to target pass.
OtherChecksPass == PreflightErr([args EXCEPT !.moveOk = <<>>], startFs) = ""

\* C10: a call on a published folder that lies in the move-ok-to directory, with
\* that same move-ok-to, ends AlreadyPublished, does not publish, and adds the
\* torrent to the client.
C10_RelocatedShortCircuits ==
    (/\ EndedClean /\ StartedPublished
     /\ args.moveOk = OkDir /\ args.contentPath = Join(OkDir, FolderName)
     /\ args.clientname # "" /\ OtherChecksPass)
        => /\ result = "ErrAlreadyPublished"
           /\ ~Occurs("Publish")
           /\ Occurs("AddTorrent")

\* The folder lay at contentPath when the call started.
StartedAtContentPath == Join(startFs.loc, FolderName) = args.contentPath
\* The metadata the call works with: the file it found when it started, with
\* the override fields on top.
StartMetadata ==
    MergeFields(IF StartedAtContentPath /\ startFs.meta.state = "ok"
                THEN startFs.meta.fields ELSE NoFields,
                args.otherFields)
\* When the call started, the folder at contentPath held the existing marker
\* and no published marker.
StartedExisting ==
    /\ InCall /\ StartedAtContentPath
    /\ startFs.existing.exists /\ ~startFs.published.exists

\* C11: a call that reads the markers of a folder holding the existing marker
\* (and no published marker) ends as Existing without SearchTorrents; and
\* SearchTorrents is called only when the folder holds neither marker, the
\* number field is non-empty and check-existing was requested.
C11_SearchOnlyWhenUnmarked ==
    /\ (StartedExisting /\ Occurs("ReadMarkers"))
          => (pc = "done" /\ result = "ErrExisting"
              /\ ~Occurs("Search") /\ ~Occurs("Publish"))
    /\ Occurs("Search")
          => /\ StartedAtContentPath
             /\ ~startFs.published.exists /\ ~startFs.existing.exists
             /\ Get(StartMetadata, "number") # <<>>
             /\ args.checkExisting

\* C11 witness: a call with check-existing and a number met the existing
\* marker and ended as Existing.
C11_Witness ==
    /\ StartedExisting /\ pc = "done" /\ result = "ErrExisting"
    /\ args.checkExisting /\ Get(StartMetadata, "number") # <<>>
    /\ Occurs("ReadMarkers")

\* C12: when the search returns a torrent whose name or description holds the
\* number as a whole word, the call writes the existing marker with the id of
\* the first such torrent, ends as Existing and does not publish, whatever that
\* id is, the empty one included.
C12_MatchEndsExisting ==
    (EndedClean /\ Occurs("Search") /\ lv.matched)
        => /\ result = "ErrExisting"
           /\ fs.existing = File(lv.existingId)
           /\ ~Occurs("Publish")

\* C13: the existing marker changes only in the step that follows a positive
\* match of the live existing check; no other step, and no outcome of the
\* publish call, creates it.
C13_ExistingOnlyOnMatch ==
    [][fs'.existing # fs.existing => (pc = "writeExisting" /\ lv.matched)]_vars

\* The artifact the call found when it started is obsolete: its verification
\* fails or the content is newer than it.
StartedObsolete == Verify(startFs).err \/ Verify(startFs).ts > startFs.artifact.mtime
\* The artifact as MakeTorrent builds it from the content.
Rebuilt == MakeTorrent(startFs).artifact

\* C14: when PublishTorrent is called on a folder that held an artifact, an
\* obsolete artifact (failed verification, or older than the content) has been
\* rebuilt and the bytes handed over are the rebuilt ones; an artifact that
\* verifies and is not older than the content is handed over as it was, with
\* no rebuild.
C14_StaleArtifactRebuilt ==
    (Occurs("Publish") /\ StartedAtContentPath /\ startFs.artifact.exists)
        => IF StartedObsolete
           THEN /\ Occurs("MakeTorrent")
                /\ fs.artifact = Rebuilt
                /\ lv.torrentContents = Rebuilt.data
                /\ lv.torrentContents = fs.content.hash
           ELSE /\ ~Occurs("MakeTorrent")
                /\ fs.artifact = startFs.artifact
                /\ lv.torrentContents = startFs.artifact.data

\* C14 witness: an artifact that failed verification was rebuilt and published.
C14_Witness ==
    /\ Occurs("PublishOk") /\ StartedAtContentPath
    /\ startFs.artifact = WrongHashArtifact /\ fs.artifact = Rebuilt
    /\ lv.torrentContents = "c1"

\* C15: PublishTorrent is never called for a folder whose content is below the
\* minimum size, and a call that gets as far as the artifact ends as TooSmall,
\* whether the folder holds an artifact or not and whether it is stale or not.
C15_SmallNeverPublished ==
    (InCall /\ fs.content.small)
        => /\ ~Occurs("Publish")
           /\ (EndedClean /\ Occurs("ReadMarkers") /\ ~startFs.published.exists
               /\ ~startFs.existing.exists /\ ~Occurs("Search"))
                 => result = "ErrSmall"

\* The errors of the checks of lines 273-312.
PreflightErrs == {"ErrTargetExists", "ErrNoMapping", "ErrInvalidMetadataFile",
                  "ErrNoMetadataFile", "ErrNoTitle", "ErrTagMismatch"}
\* The call is past its checks or has ended.
PastPreflight == InCall /\ pc # "preflight"
\* The call has touched nothing: no file changed, the folder where it was, no
\* marker read, no site or client call.
NothingDone == fs = startFs /\ trace = <<>>

\* C16: PublishTorrent is never called with an empty title; when the merged
\* metadata has an empty or absent title the call fails in its checks, before
\* any marker lookup, search, artifact build or publish call.
C16_TitleBeforeAnything ==
    /\ Occurs("Publish") => Get(StartMetadata, "title") # <<>>
    /\ (PastPreflight /\ Get(StartMetadata, "title") = <<>>)
          => /\ pc = "done"
             /\ result \in PreflightErrs \cup {"killed"}
             /\ NothingDone

\* C16 witness: a folder whose metadata file has a number and no title was
\* rejected for its title by a call with check-existing.
C16_Witness ==
    /\ pc = "done" /\ result = "ErrNoTitle" /\ args.checkExisting
    /\ StartedAtContentPath /\ startFs.meta = MetaNoTitle

\* The call found no metadata file at contentPath when it started.
StartedWithoutMetadataFile ==
    InCall /\ (~StartedAtContentPath \/ startFs.meta.state = "missing")

\* C17: a call that finds no metadata file leaves the folder as it was: nothing
\* built, no marker written, no move, no site or client call.  It ends as
\* NoMetadata, unless the process is killed or one of the two path checks that
\* come first (lines 273-287) has rejected the call: the move-ok-to target, only
\* with a move-ok-to directory, and the path mapper, only with a mapper.
C17_NoMetadataLeavesFolder ==
    (StartedWithoutMetadataFile /\ PastPreflight)
        => /\ pc = "done"
           /\ NothingDone
           /\ result \in {"ErrNoMetadataFile", "ErrTargetExists", "ErrNoMapping", "killed"}
           /\ result = "ErrTargetExists" => args.moveOk # <<>>
           /\ result = "ErrNoMapping" => ~args.savePathMapper.nil
           /\ PrintResult("ErrNoMetadataFile") = [ok |-> TRUE, published |-> FALSE]

\* C17 witness: a folder without metadata file ended as NoMetadata in a call
\* with a move-ok-to directory, a path mapper, a client and check-existing.
C17_Witness ==
    /\ pc = "done" /\ result = "ErrNoMetadataFile"
    /\ StartedAtContentPath /\ startFs.meta = MetaMissing
    /\ args.moveOk # <<>> /\ ~args.savePathMapper.nil
    /\ args.clientname # "" /\ args.checkExisting

\* The call has a path mapper and none of its rules matches the parent
\* directory of the folder's final path.
NoRuleForTarget ==
    /\ InCall /\ ~args.savePathMapper.nil
    /\ ~Before2After(args.savePathMapper, Dir(TargetContentPath(args))).match

\* C18: with a path mapper that has no rule for the parent directory of the
\* folder's final path the call fails in its checks with nothing done; so the
\* mapping looked up when the torrent is handed to the client always matches.
C18_MapperCheckedFirst ==
    /\ (NoRuleForTarget /\ PastPreflight)
          => /\ pc = "done"
             /\ NothingDone
             /\ result \in {"ErrNoMapping", "ErrTargetExists", "killed"}
    /\ pc = "dlAdd" => ClientSavePath(args.savePathMapper, lv.dlPath).match

\* C18 witness: a call with move-ok-to failed on a mapper that has a rule for
\* the folder's present parent directory but none for the move-ok-to directory.
C18_Witness ==
    /\ pc = "done" /\ result = "ErrNoMapping" /\ NoRuleForTarget
    /\ StartedAtContentPath /\ args.moveOk # <<>>
    /\ Before2After(args.savePathMapper, Dir(args.contentPath)).match

\* The errs of the folders the batch has handled so far.
BatchErrAt(i) == batch.errs[i]
\* A folder counts as handled when it was published or ready in a dry run, or
\* when it failed; already published, existing, without metadata, too small
\* and skipped for its tags do not count.
CountsAsHandled(err) ==
    err \notin {"ErrAlreadyPublished", "ErrExisting", "ErrNoMetadataFile", "ErrSmall",
                "ErrTagMismatch"}
HandledSoFar == Cardinality({i \in 1..Len(batch.errs) : CountsAsHandled(BatchErrAt(i))})

\* C19: the loop's count of handled folders is the number of folders published,
\* ready in a dry run or failed; with a positive max-torrents the loop is left
\* as soon as the count reaches it, so the count never exceeds it.
C19_CapOnHandled ==
    /\ batch.cntHandled = HandledSoFar
    /\ batch.maxTorrents > 0
          => /\ batch.cntHandled <= batch.maxTorrents
             /\ batch.cntHandled = batch.maxTorrents => batch.at # "loop"

\* C20: a batch whose folders all ended on the must-tag filter counted none of
\* them as handled and returns without error.
C20_TagMismatchSkipped ==
    (/\ batch.at = "returned" /\ batch.errs # <<>>
     /\ \A i \in 1..Len(batch.errs) : BatchErrAt(i) = "ErrTagMismatch")
        => (batch.cntHandled = 0 /\ batch.errorCnt = 0 /\ batch.returned = "nil")

\* The errs of the ok classifications: Published, DryRun, AlreadyPublished,
\* NoMetadata, Existing, TooSmall.
OkErrs == {"nil", "ErrDryRun", "ErrAlreadyPublished", "ErrNoMetadataFile", "ErrExisting",
           "ErrSmall"}
NonOkSoFar == Cardinality({i \in 1..Len(batch.errs) : BatchErrAt(i) \notin OkErrs})

\* C21: the loop's error count is the number of folders handled so far with a
\* non-ok classification; the command returns an error exactly when that number
\* is positive, and the error reports that number.
C21_ErrorIffNonOk ==
    /\ batch.errorCnt = NonOkSoFar
    /\ batch.at = "returned"
          => /\ batch.returned = "errors" <=> NonOkSoFar > 0
             /\ batch.returned = "errors" => batch.returnedCnt = NonOkSoFar
             /\ batch.returned \in {"errors", "nil"}

\* C21 witness: a batch left by the cap before its last folder returned an
\* error counting one failure next to an ok folder.
C21_Witness ==
    /\ batch.at = "returned" /\ batch.returned = "errors" /\ batch.returnedCnt = 1
    /\ Len(batch.errs) = 2 /\ Len(batch.errs) < batch.folders
    /\ \E i \in 1..Len(batch.errs) : BatchErrAt(i) = "ErrSmall"

\* C22: a call that ends with the dry-run indicator of PublishTorrent has moved
\* the folder to the move-ok-to directory when there is one (and the move did
\* not fail), and nothing else: no marker and no cached site torrent written,
\* no download, no client call; printResult counts it as ok and as handled.
C22_DryRunRelocatesOnly ==
    (pc = "done" /\ result = "ErrDryRun")
        => /\ Occurs("Publish") /\ ~Occurs("PublishOk")
           /\ ~Occurs("WriteMarker") /\ ~Occurs("Download") /\ ~Occurs("WriteCache")
           /\ ~Occurs("AddTorrent")
           /\ fs.published = startFs.published /\ fs.existing = startFs.existing
           /\ fs.siteTorrent = startFs.siteTorrent
           /\ fs.loc = IF args.moveOk # <<>> /\ ~fault THEN args.moveOk ELSE startFs.loc
           /\ PrintResult(result) = [ok |-> TRUE, published |-> TRUE]

\* C22 witness: a dry run with a move-ok-to directory and a client moved the
\* folder there.
C22_Witness ==
    /\ pc = "done" /\ result = "ErrDryRun" /\ args.clientname # ""
    /\ args.moveOk = OkDir /\ startFs.loc = SaveDir /\ fs.loc = OkDir

\* The steps that write a marker or move the folder.
FsWriteSteps == {"writeExisting", "writeMarker", "moveAlready", "dryRunMove", "movePublished"}

\* C23: when the write of a marker or the move of the folder fails, the call
\* ends there with an err that printResult reports as a failure.
C23_FsFailureSurfaces ==
    [][(pc \in FsWriteSteps /\ ~fault /\ fault')
          => (pc' = "done" /\ ~PrintResult(result').ok)]_vars

\* C24: a marker that exists is never deleted and its stored id never changes,
\* in this call or any later one; a move of the folder takes the markers along.
C24_MarkersMonotonic ==
    [][/\ fs.published.exists => fs'.published = fs.published
       /\ fs.existing.exists => fs'.existing = fs.existing]_vars

\* C24 witness: a later call met the published marker an earlier call wrote,
\* moved the folder and ended; the marker is in the moved folder with its id.
C24_Witness ==
    /\ pc = "done" /\ runs >= 2 /\ Occurs("Move") /\ fs.loc = OkDir
    /\ startFs.published.exists /\ startFs.published.data # ""
    /\ fs.published = startFs.published
    /\ FileIn(Join(OkDir, FolderName), fs.published).exists

\* The call has a move-ok-to directory and its target path exists.
StartedWithTargetOccupied ==
    /\ InCall /\ args.moveOk # <<>>
    /\ Join(startFs.loc, FolderName) = Join(args.moveOk, Base(args.contentPath))

\* C25: a call whose move-ok-to target path exists ends with the path conflict,
\* whatever the metadata file is like, with nothing done: no site or client
\* call, no marker write, no artifact build, no move.
C25_TargetConflictFirst ==
    (StartedWithTargetOccupied /\ PastPreflight)
        => /\ pc = "done"
           /\ result \in {"ErrTargetExists", "killed"}
           /\ NothingDone

\* C25 witness: a call on a folder without usable metadata, in the move-ok-to
\* directory already, ended with the path conflict.
C25_Witness ==
    /\ pc = "done" /\ result = "ErrTargetExists" /\ StartedWithTargetOccupied
    /\ startFs.meta.state # "ok" /\ args.clientname # "" /\ args.checkExisting

\* C26: in the merged metadata a field declared array-typed that was given as
\* one scalar value, in the metadata file or as an override, holds the trimmed
\* comma-separated parts of that value.
C26_ArrayFieldsSplit ==
    parse.at = "merged" =>
        \A i \in 1..Len(parse.arrayKeys) :
            LET key == parse.arrayKeys[i]
            IN /\ (key \in DOMAIN parse.otherFields /\ Len(parse.otherFields[key]) = 1)
                    => parse.metadata[key] = SplitCsv(parse.otherFields[key][1])
               /\ (/\ key \notin DOMAIN parse.otherFields
                   /\ key \in DOMAIN parse.raw.map
                   /\ parse.raw.map[key].kind = "string")
                    => parse.metadata[key] = SplitCsv(parse.raw.map[key].s)

\* C27: the merged metadata has, under every name of the override fields,
\* exactly the override's value list, and under every other name the value
\* list of the file, unchanged; only the reserved array-keys field, set after
\* the merge, is neither.
C27_OverrideReplacesField ==
    parse.at = "merged" =>
        /\ DOMAIN parse.metadata
              = DOMAIN parse.fileMetadata \cup DOMAIN parse.otherFields \cup {KeyArrayKeys}
        /\ \A name \in DOMAIN parse.metadata \ {KeyArrayKeys} :
              IF name \in DOMAIN parse.otherFields
              THEN parse.metadata[name] = parse.otherFields[name]
              ELSE parse.metadata[name] = parse.fileMetadata[name]

\* C27 witness: the file has a title and tags, the overrides have two tags and
\* an empty field; the merged tags are the overrides', the title is the file's.
C27_Witness ==
    /\ parse.at = "merged"
    /\ KeyTags \in DOMAIN parse.fileMetadata /\ KeyTags \in DOMAIN parse.otherFields
    /\ parse.fileMetadata[KeyTags] # parse.otherFields[KeyTags]
    /\ Len(parse.otherFields[KeyTags]) = 2
    /\ parse.metadata[KeyTags] = parse.otherFields[KeyTags]
    /\ parse.metadata[KeyTitle] = <<TitleFoo>>
    /\ parse.metadata[KeyOneSpace] = <<>>


\* The name with every maximal run of spaces and tabs replaced by one "_".
RECURSIVE CollapseRuns(_)
CollapseRuns(key) ==
    IF key = <<>> THEN <<>>
    ELSE IF Head(key) \in {" ", "\t"}
    THEN IF Len(key) > 1 /\ key[2] \in {" ", "\t"}
         THEN CollapseRuns(Tail(key))
         ELSE <<"_">> \o CollapseRuns(Tail(key))
    ELSE <<Head(key)>> \o CollapseRuns(Tail(key))

\* C28: every field of the front matter with a string value is in the parsed
\* metadata under the name in which each maximal run of whitespace is one
\* underscore.
C28_WhitespaceRunsCollapsed ==
    parse.at = "parsed" =>
        \A key \in DOMAIN parse.raw.map :
            parse.raw.map[key].kind = "string" =>
                CollapseRuns(key) \in DOMAIN parse.fileMetadata

\* A later line of the file, after the first, that is the delimiter line.
HasClosingDelimiterLine(contents) ==
    \E i \in (Len(Deli) + 1)..(Len(contents) - Len(Deli) + 1) :
        /\ SubSeq(contents, i, i + Len(Deli) - 1) = Deli
        /\ contents[i - 1] = "\n"

\* C29: a file that was read is refused as an invalid metadata file exactly
\* when it does not begin with the delimiter line or has no later delimiter
\* line; every other file goes on to the decoding of its front matter.
C29_InvalidIffNoDelimiters ==
    (parse.at \in {"parsed", "failed"} /\ parse.err # "ErrReadFile") =>
        (parse.err = "ErrInvalidMetadataFile"
            <=> ~(HasPrefix(parse.contents, Deli) /\ HasClosingDelimiterLine(parse.contents)))


\* C30: in every step, Set and CreateDefaultConfig are between TryLock and
\* Unlock only as the one holder of the lock; TryLock never waits; a TryLock
\* made while a process holds the lock returns the error and changes neither
\* the file nor the lock; the config file changes only in the write step of a
\* holder; a call that has returned or panicked holds no lock; and a process
\* that runs publish never holds it.
C30_LockAroundConfigWrite ==
    [][/\ Cardinality(conf'.held) <= 1
       /\ \A p \in Procs :
            /\ conf'.pc[p] \in LockedSteps => p \in conf'.held
            /\ conf'.pc[p] \in {"returned", "panicked"} => p \notin conf'.held
            /\ conf'.op[p] = "publish" => p \notin conf'.held
            /\ conf.pc[p] = "trylock" => ENABLED TryLock(p)
            /\ (conf.pc[p] = "trylock" /\ conf'.pc[p] # "trylock" /\ conf.held # {})
                  => /\ conf'.pc[p] = "returned"
                     /\ conf'.result[p] = "ErrLock"
                     /\ conf'.file = conf.file
                     /\ conf'.held = conf.held
       /\ conf'.file # conf.file
            => \E p \in conf.held : conf.pc[p] = "write" /\ conf'.pc[p] = "unlock"
      ]_vars

\* C30 witness: one process has written the config file and still holds the
\* lock before its deferred Unlock, the other has returned the lock error.
C30_Witness ==
    \E p, q \in Procs :
        /\ conf.pc[p] = "unlock" /\ conf.result[p] = "nil" /\ p \in conf.held
        /\ conf.file \in {"sites", "default"}
        /\ conf.pc[q] = "returned" /\ conf.result[q] = "ErrLock"


\* C31: the initialization body of Get runs at most once in a process, and
\* every call of Get or of a lookup that has returned did so after the one run
\* of the body was complete, with the config data and the registries that run
\* made, the same for every caller.
C31_InitializedOnce ==
    /\ conf.inits <= 1
    /\ \A t \in Threads :
         conf.pc[t] \in {"return", "returned"} =>
            /\ conf.inits = 1 /\ conf.done
            /\ conf.configData # NoConfigData /\ conf.registries = "built"
    /\ \A t \in Threads :
         conf.pc[t] = "returned" =>
            conf.seen[t] = [configData |-> conf.configData, registries |-> conf.registries]

\* C31 witness: while one goroutine still holds the mutex after the body, a
\* second waits for it and a third has returned through the fast path with
\* the data of the one run.
C31_Witness ==
    \E t, u, v \in Threads :
        /\ conf.pc[t] = "unlock" /\ conf.m = t /\ conf.inits = 1
        /\ conf.pc[u] = "lock"
        /\ conf.pc[v] = "returned" /\ conf.fn[v] = "GetClientConfig"
        /\ conf.seen[v].registries = "built"


\* C32: in a batch run publicTorrent is invoked on the folders in the order of
\* the listing, never twice on one folder whatever it returned, and each
\* invocation calls PublishTorrent at most once; a run that returns without
\* having reached the max-torrents cap has invoked it on every folder.
C32_EachFolderOnce ==
    /\ batch.calls = [i \in 1..Len(batch.calls) |-> i]
    /\ Len(batch.calls) <= batch.folders
    /\ Len(batch.publishes) = Len(batch.calls)
    /\ \A i \in 1..Len(batch.publishes) : batch.publishes[i] <= 1
    /\ (/\ batch.at = "returned"
        /\ ~(batch.maxTorrents > 0 /\ batch.cntHandled >= batch.maxTorrents))
          => Len(batch.calls) = batch.folders

\* C32 witness: a run over three folders returned after a publish that failed,
\* a search that failed and a publish that went through, each folder invoked
\* once, in order.
C32_Witness ==
    /\ batch.at = "returned" /\ batch.folders = 3
    /\ batch.errs = <<"ErrPublish", "ErrSearch", "nil">>
    /\ batch.calls = <<1, 2, 3>>
    /\ batch.publishes = <<1, 0, 1>>


\* C33: when AddTorrent was called, the folder is in the move-ok-to directory
\* if one was given and in its original parent directory otherwise, and the
\* save path the client got is that directory, rewritten by the path mapper
\* when there is one.
C33_SavePathIsWhereFolderIs ==
    Occurs("AddTorrent") =>
        /\ FolderExists(FolderPath)
        /\ fs.loc = (IF args.moveOk # <<>> THEN args.moveOk ELSE Dir(args.contentPath))
        /\ lv.addSavePath = (IF args.savePathMapper.nil THEN fs.loc
                             ELSE Before2After(args.savePathMapper, fs.loc).path)
        /\ ~args.savePathMapper.nil => Before2After(args.savePathMapper, fs.loc).match

\* C33 witness: a folder published from the save directory was moved to the
\* move-ok-to directory and handed to the client with the mapped path of that
\* directory.
C33_Witness ==
    /\ Occurs("PublishOk") /\ Occurs("Move") /\ Occurs("AddTorrent")
    /\ startFs.loc = SaveDir /\ fs.loc = OkDir /\ args.moveOk = OkDir
    /\ lv.addSavePath = <<"mnt", "done">>


\* C34: the line printed for a call that returned nil says that the torrent
\* was added to the client exactly when a client name was given.
C34_AddedSaidWhenClient ==
    (pc = "done" /\ result = "nil") =>
        (SuccessLine(args.clientname) = "published as id; added to client"
            <=> args.clientname # "")


\* The flags are an invalid combination: not exactly one of content-path and
\* save-path, or both comment and comment-file.
InvalidFlags ==
    \/ (batch.flags.contentPath # "") = (batch.flags.savePath # "")
    \/ batch.flags.comment # "" /\ batch.flags.commentFile # ""

\* C35: a command with an invalid flag combination touches nothing, neither
\* site nor client nor comment file nor any directory, and its only step is
\* the return of the flag error.
C35_InvalidFlagsRejectedFirst ==
    InvalidFlags =>
        /\ batch.effects = <<>>
        /\ batch.at \in {"flags", "returned"}
        /\ batch.at = "returned" => batch.returned \in {"ErrPathFlags", "ErrCommentFlags"}

\* C35 witness: a command with one path flag, a client and a move-ok-to
\* directory, given both comment and comment-file, has returned the flag error.
C35_Witness ==
    /\ batch.at = "returned" /\ batch.returned = "ErrCommentFlags"
    /\ batch.flags.savePath # "" /\ batch.flags.contentPath = ""
    /\ batch.flags.clientname # "" /\ batch.flags.moveOkTo # ""
    /\ batch.effects = <<>>


\* C36: a CreateDefaultConfig that finds the config file present, or cannot
\* look at it, returns the error and leaves the file as it is; when it comes
\* to its write the file is still absent, so the default never replaces a
\* config file.
C36_DefaultNeverOverwrites ==
    [][/\ \A p \in Procs :
            conf.op[p] = "CreateDefaultConfig" =>
               /\ (conf.pc[p] = "stat" /\ conf'.pc[p] # "stat" /\ conf.file # "absent")
                     => /\ conf'.pc[p] = "unlock"
                        /\ conf'.result[p] \in {"ErrExists", "ErrAccess"}
                        /\ conf'.file = conf.file
               /\ (conf.pc[p] = "stat" /\ conf'.result[p] = "ErrAccess")
                     => conf'.file = conf.file
               /\ (conf.pc[p] = "write" /\ conf'.pc[p] # "write") => conf.file = "absent"
       /\ (conf'.file = "default" /\ conf.file # "default") => conf.file = "absent"
      ]_vars

\* C36 witness: after a Set of another process wrote the config file, a
\* CreateDefaultConfig returned "config file already exists" and the file is
\* still what Set wrote.
C36_Witness ==
    \E p, q \in Procs :
        /\ conf.op[p] = "CreateDefaultConfig" /\ conf.pc[p] = "returned"
        /\ conf.result[p] = "ErrExists"
        /\ conf.op[q] = "Set" /\ conf.pc[q] = "returned" /\ conf.result[q] = "nil"
        /\ conf.file = "sites"

====
